---- MODULE Spec2Model ----
(***************************************************************************)
(* Lettera server: account verification and token issuance state machine   *)
(* (AuthService), the JWT helper, the authenticate middleware and the      *)
(* ephemeral key-value adapter with its in-process fallback (redisUtils).  *)
(* Time is counted in seconds.                                             *)
(***************************************************************************)
EXTENDS Integers, Sequences, FiniteSets, TLC

\* ------------------------------------------------------------------ bounds
\* number of clock advances explored
MaxTicks == 1

\* ------------------------------------------------------- program constants
VERIFICATION_CODE_EXPIRY == 600
REFRESH_TOKEN_TTL == 7 * 24 * 60 * 60
JWT_EXPIRES_IN == 15 * 60
REFRESH_TOKEN_EXPIRES_IN == 7 * 24 * 60 * 60
MinPasswordLength == 8

\* ------------------------------------------------------------ input domains
\* e-mail addresses as submitted, and String.prototype.toLowerCase on them
RawEmails == {"a@x.com", "A@x.com"}

toLowerCaseSkipped(s) == s

toLowerCase(s) == IF s = "A@x.com" THEN "a@x.com" ELSE s

LowerEmails == {toLowerCase(e) : e \in RawEmails}

\* the store-assigned _id of the record created for an e-mail address
IdOf(email) == IF email = "a@x.com" THEN "id_a" ELSE "id_b"

UserIds == {IdOf(e) : e \in LowerEmails}

\* a userId no record was ever created for
GhostId == "id_none"

\* passwords as character sequences
Passwords == { <<"A","b","c","d","e","f","1","!">>, <<"s","h","o","r","t">> }

DigitChars == {"0","1","2","3","4","5","6","7","8","9"}

SpecialChars == {"!","@","#","$","%","^","&","*","(",")","_","+","-","=","[","]",
                 "{","}",";","'",":","\"","\\","|",",",".","<",">","/","?"}

\* values of Math.floor(100000 + Math.random() * 900000) that are explored
CodeNumbers == {100000, 999999}

\* six-digit strings a client may submit (the route accepts /^\d{6}$/)
SubmitCodes == {"100000", "999999", "000000"}

\* clock advances: one code lifetime, one refresh-credential lifetime
Deltas == {VERIFICATION_CODE_EXPIRY, REFRESH_TOKEN_TTL}

\* ------------------------------------------------------------------ helpers
DigitString == <<"0","1","2","3","4","5","6","7","8","9">>

\* Number.prototype.toString for a non-negative integer
RECURSIVE NumToString(_)
NumToString(n) ==
    IF n < 10 THEN DigitString[n + 1]
    ELSE NumToString(n \div 10) \o DigitString[(n % 10) + 1]

\* AuthService.generateVerificationCode: the codes it can return
generateVerificationCode == {NumToString(n) : n \in CodeNumbers}

\* AuthService.validatePassword: the set of violated rules
validatePasswordFirstError(password) ==
    IF Len(password) < MinPasswordLength THEN {"length"}
    ELSE IF \A i \in 1..Len(password) : password[i] \notin DigitChars THEN {"digit"}
    ELSE IF \A i \in 1..Len(password) : password[i] \notin SpecialChars
    THEN {"special"}
    ELSE {}

validatePassword(password) ==
    (IF Len(password) < MinPasswordLength THEN {"length"} ELSE {})
    \cup (IF \A i \in 1..Len(password) : password[i] \notin DigitChars
          THEN {"digit"} ELSE {})
    \cup (IF \A i \in 1..Len(password) : password[i] \notin SpecialChars
          THEN {"special"} ELSE {})

\* ------------------------------------------------------------------- tokens
\* A signed JWT is determined by its payload and its signature; a payload
\* property that is absent reads as "undefined".
Undefined == "undefined"

NoToken == [userId |-> Undefined, email |-> Undefined, type |-> Undefined,
            iat |-> 0, exp |-> 0, sig |-> "absent"]

\* JWTService.generateAccessToken at time t
generateAccessToken(userId, email, t) ==
    [userId |-> userId, email |-> email, type |-> Undefined,
     iat |-> t, exp |-> t + JWT_EXPIRES_IN, sig |-> "valid"]

\* JWTService.generateRefreshToken at time t
generateRefreshToken(userId, t) ==
    [userId |-> userId, email |-> Undefined, type |-> "refresh",
     iat |-> t, exp |-> t + REFRESH_TOKEN_EXPIRES_IN, sig |-> "valid"]

\* jwt.verify(token, JWT_SECRET) at time t: TRUE when it returns the payload
jwtVerify(token, t) == token.sig = "valid" /\ t < token.exp

\* JWTService.verifyAccessToken returns (does not throw)
verifyAccessToken(token, t) == jwtVerify(token, t)

\* JWTService.verifyRefreshToken returns (does not throw)
verifyRefreshTokenNoTypeCheck(token, t) == jwtVerify(token, t)

verifyRefreshToken(token, t) == jwtVerify(token, t) /\ token.type = "refresh"

\* ------------------------------------------------------------ map utilities
\* Map.prototype.set / SET on a keyed store
MapSet(m, k, v) == [x \in (DOMAIN m) \cup {k} |-> IF x = k THEN v ELSE m[x]]

\* Map.prototype.delete / DEL on a keyed store
MapDel(m, k) == [x \in (DOMAIN m) \ {k} |-> m[x]]

EmptyMap == [x \in {} |-> 0]

\* entries of a TTL-bearing store that are still alive at time t
Unexpired(m, t) == [x \in {k \in DOMAIN m : m[k].expiresAt > t} |-> m[x]]

\* --------------------------------------------------- in-process fallback
\* InMemoryFallback.setEmailCode: overwrite the entry, expiry from now
memSetEmailCode(mc, email, code, ttl, t) ==
    MapSet(mc, email, [code |-> code, expiresAt |-> t + ttl])

\* InMemoryFallback.getEmailCode: "" stands for null
memGetEmailCode(mc, email, t) ==
    IF email \notin DOMAIN mc THEN ""
    ELSE IF mc[email].expiresAt <= t THEN ""
    ELSE mc[email].code

\* InMemoryFallback.deleteEmailCode
memDeleteEmailCode(mc, email) == MapDel(mc, email)

\* Set.prototype.add on an insertion-ordered set
SetAdd(seq, x) ==
    IF \E i \in 1..Len(seq) : seq[i] = x THEN seq ELSE Append(seq, x)

\* InMemoryFallback.setRefreshToken: the entry (and its expiry) is created
\* only when absent; the token is added to the entry's set
memSetRefreshToken(mt, userId, token, ttl, t) ==
    LET entry == IF userId \in DOMAIN mt THEN mt[userId]
                 ELSE [tokens |-> <<>>, expiresAt |-> t + ttl]
    IN  MapSet(mt, userId, [entry EXCEPT !.tokens = SetAdd(entry.tokens, token)])

\* InMemoryFallback.getRefreshToken: the first token in insertion order
memGetRefreshToken(mt, userId, t) ==
    IF userId \notin DOMAIN mt THEN NoToken
    ELSE IF mt[userId].expiresAt <= t THEN NoToken
    ELSE IF mt[userId].tokens = <<>> THEN NoToken
    ELSE Head(mt[userId].tokens)

\* InMemoryFallback.invalidateAllRefreshTokens
memInvalidateAllRefreshTokens(mt, userId) == MapDel(mt, userId)

\* ------------------------------------------------------------ remote store
\* generateKeys.emailCode
emailCodeKey(email) == toLowerCase(email)

\* SETEX key ttl value
redisSetex(rc, key, ttl, value, t) ==
    MapSet(rc, key, [code |-> value, expiresAt |-> t + ttl])

\* GET key: "" stands for null
redisGet(rc, key, t) ==
    IF key \in DOMAIN rc /\ rc[key].expiresAt > t THEN rc[key].code ELSE ""

\* SADD key member followed by EXPIRE key ttl
redisSaddExpire(rt, key, member, ttl, t) ==
    LET members == IF key \in DOMAIN rt THEN rt[key].tokens ELSE {}
    IN  MapSet(rt, key, [tokens |-> members \cup {member}, expiresAt |-> t + ttl])

\* SMEMBERS key
redisSmembers(rt, key, t) ==
    IF key \in DOMAIN rt /\ rt[key].expiresAt > t THEN rt[key].tokens ELSE {}

\* InMemoryFallback.setUserStatus / getUserStatus: "" stands for null
memSetUserStatus(ms, userId, status, ttl, t) ==
    MapSet(ms, userId, [code |-> status, expiresAt |-> t + ttl])

memGetUserStatus(ms, userId, t) ==
    IF userId \notin DOMAIN ms THEN ""
    ELSE IF ms[userId].expiresAt <= t THEN ""
    ELSE ms[userId].code

\* ------------------------------------------- ephemeral key-value adapter
\* Each adapter call is served by the remote store (viaRemote = TRUE) when
\* isRedisConnected() holds and the command does not throw, and by the
\* in-process fallback otherwise.  Operators that write return the pair
\* <<remote store, fallback store>> after the call.
Paths(isConnected) == IF isConnected THEN {TRUE, FALSE} ELSE {FALSE}

setEmailCode(viaRemote, rc, mc, email, code, ttl, t) ==
    IF viaRemote THEN <<redisSetex(rc, emailCodeKey(email), ttl, code, t), mc>>
    ELSE <<rc, memSetEmailCode(mc, email, code, ttl, t)>>

getEmailCodeIgnoringExpiry(viaRemote, rc, mc, email, t) ==
    IF viaRemote
    THEN IF emailCodeKey(email) \in DOMAIN rc THEN rc[emailCodeKey(email)].code ELSE ""
    ELSE IF email \in DOMAIN mc THEN mc[email].code ELSE ""

getEmailCode(viaRemote, rc, mc, email, t) ==
    IF viaRemote THEN redisGet(rc, emailCodeKey(email), t)
    ELSE memGetEmailCode(mc, email, t)

deleteEmailCode(viaRemote, rc, mc, email) ==
    IF viaRemote THEN <<MapDel(rc, emailCodeKey(email)), mc>>
    ELSE <<rc, memDeleteEmailCode(mc, email)>>

setRefreshToken(viaRemote, rt, mt, userId, token, ttl, t) ==
    IF viaRemote THEN <<redisSaddExpire(rt, userId, token, ttl, t), mt>>
    ELSE <<rt, memSetRefreshToken(mt, userId, token, ttl, t)>>

\* the values getRefreshToken can return: tokens[0] of SMEMBERS, whose order
\* the remote store does not specify, or the fallback's first token
getRefreshToken(viaRemote, rt, mt, userId, t) ==
    IF viaRemote
    THEN IF redisSmembers(rt, userId, t) = {} THEN {NoToken}
         ELSE redisSmembers(rt, userId, t)
    ELSE {memGetRefreshToken(mt, userId, t)}

invalidateAllRefreshTokens(viaRemote, rt, mt, userId) ==
    IF viaRemote THEN <<MapDel(rt, userId), mt>>
    ELSE <<rt, memInvalidateAllRefreshTokens(mt, userId)>>

setUserStatus(viaRemote, rs, ms, userId, status, ttl, t) ==
    IF viaRemote THEN <<redisSetex(rs, userId, ttl, status, t), ms>>
    ELSE <<rs, memSetUserStatus(ms, userId, status, ttl, t)>>

getUserStatus(viaRemote, rs, ms, userId, t) ==
    IF viaRemote THEN redisGet(rs, userId, t) ELSE memGetUserStatus(ms, userId, t)

\* the shape shared by the adapter operations:
\*   try { if (isRedisConnected()) { <remote command>; return }
\*         return memoryFallback.<op>() }
\*   catch { return memoryFallback.<op>() }
\* "error" stands for an exception leaving the operation
ServedRethrowing(connected, commandThrows) ==
    IF ~connected THEN "fallback" ELSE IF commandThrows THEN "error" ELSE "remote"

Served(connected, commandThrows) ==
    IF connected /\ ~commandThrows THEN "remote" ELSE "fallback"

\* -------------------------------------------------------------------- state
VARIABLES
    users,          \* durable store: lower-case e-mail -> identity record
    now,            \* Date.now() in seconds
    ticks,          \* number of clock advances so far
    isConnected,    \* redisConnection.isConnected (and status 'ready')
    redis,          \* redisConnection.redis: null or the client created
    redisCodes,     \* remote store: email:code:<email> -> code, expiry
    redisTokens,    \* remote store: user:refresh_token:<id> -> set, expiry
    memCodes,       \* InMemoryFallback.emailCodes
    memTokens,      \* InMemoryFallback.refreshTokens
    redisStatuses,  \* remote store: user:status:<id> -> status, expiry
    memStatuses,    \* InMemoryFallback.userStatuses
    inflight,       \* requests suspended at an await: id -> position, locals
    resp,           \* the request last served and its response
    issued,         \* history: every token returned to a caller
    verifiedWith,   \* history: e-mail -> code of its successful verifyEmail
    rotated,        \* history: refresh tokens exchanged for a different one
    revoked         \* history: refresh tokens issued to an identity before
                    \*          a logout of that identity

vars == <<users, now, ticks, isConnected, redis, redisCodes, redisTokens, memCodes,
          memTokens, redisStatuses, memStatuses, inflight, resp, issued,
          verifiedWith, rotated, revoked>>

\* redisConnection.redis before a client was created, or after connectRedis
\* gave it up; and a client created by connectRedis
NoClient == "null"

Client == "client"

\* isRedisConnected(): the flag is set and a client is held
isRedisConnected == isConnected /\ redis # NoClient

stores == <<redisCodes, redisTokens, memCodes, memTokens>>

history == <<issued, verifiedWith, rotated, revoked>>

statuses == <<redisStatuses, memStatuses>>

\* the request/response record
Response(op, email, vcode, token, userId, status, error, accessToken, refreshToken) ==
    [op |-> op, email |-> email, vcode |-> vcode, token |-> token,
     userId |-> userId, status |-> status, error |-> error,
     accessToken |-> accessToken, refreshToken |-> refreshToken]

Failure(op, email, vcode, token, status, error) ==
    Response(op, email, vcode, token, Undefined, status, error, NoToken, NoToken)

\* HttpError(400, 'Password validation failed: ' + errors.join(', '),
\* 'INVALID_PASSWORD'): message holds the errors that were joined
InvalidPassword(email, errors) ==
    [op |-> "register", email |-> email, vcode |-> "", token |-> NoToken,
     userId |-> Undefined, status |-> 400, error |-> "INVALID_PASSWORD",
     accessToken |-> NoToken, refreshToken |-> NoToken, message |-> errors]

\* User.findById
findById(us, userId) == {e \in DOMAIN us : us[e].id = userId}

Init ==
    /\ users = EmptyMap
    /\ now = 0
    /\ ticks = 0
    /\ isConnected = FALSE
    /\ redis = Client
    /\ redisCodes = EmptyMap
    /\ redisTokens = EmptyMap
    /\ memCodes = EmptyMap
    /\ memTokens = EmptyMap
    /\ redisStatuses = EmptyMap
    /\ memStatuses = EmptyMap
    /\ inflight = EmptyMap
    /\ resp = Failure("none", "", "", NoToken, 0, "")
    /\ issued = {}
    /\ verifiedWith = EmptyMap
    /\ rotated = {}
    /\ revoked = {}

\* ----------------------------------------------------------- environment
\* the clock advances; keys whose TTL has elapsed leave the remote store and
\* the fallback's expiry timers remove the entries that have expired
Tick(d) ==
    /\ ticks < MaxTicks
    /\ ticks' = ticks + 1
    /\ now' = now + d
    /\ redisCodes' = Unexpired(redisCodes, now + d)
    /\ redisTokens' = Unexpired(redisTokens, now + d)
    /\ memCodes' = Unexpired(memCodes, now + d)
    /\ memTokens' = Unexpired(memTokens, now + d)
    /\ redisStatuses' = Unexpired(redisStatuses, now + d)
    /\ memStatuses' = Unexpired(memStatuses, now + d)
    /\ UNCHANGED <<users, isConnected, redis, inflight, resp, history>>

\* redis.on('ready')
RedisReady ==
    /\ ~isConnected
    /\ isConnected' = TRUE
    /\ UNCHANGED <<users, now, ticks, redis, statuses, inflight, stores, resp,
                   history>>

\* redis.on('error') / redis.on('close') / redis.on('end')
RedisClosed ==
    /\ isConnected
    /\ isConnected' = FALSE
    /\ UNCHANGED <<users, now, ticks, redis, statuses, inflight, stores, resp,
                   history>>

\* ---------------------------------------------------------- AuthService
\* bcrypt.hash(password, SALT_ROUNDS)
SALT_ROUNDS == 12

bcryptHash(password) == [alg |-> "bcrypt", rounds |-> SALT_ROUNDS, of |-> password]

\* new User({... emailVerified: false ...})
NewUserVerified(email, password) ==
    [id |-> IdOf(email), email |-> email, passwordHash |-> bcryptHash(password),
     emailVerified |-> TRUE]

NewUser(email, password) ==
    [id |-> IdOf(email), email |-> email, passwordHash |-> bcryptHash(password),
     emailVerified |-> FALSE]

\* AuthService.register, and sendVerificationEmail succeeding or throwing
register(em, password, mailOk) ==
    LET email == toLowerCase(em) IN
    /\ IF email \in DOMAIN users
       THEN /\ resp' = Failure("register", em, "", NoToken, 409, "EMAIL_ALREADY_EXISTS")
            /\ UNCHANGED <<users, stores>>
       ELSE IF validatePassword(password) # {}
       THEN /\ resp' = InvalidPassword(em, validatePassword(password))
            /\ UNCHANGED <<users, stores>>
       ELSE \E code \in generateVerificationCode, viaSet \in Paths(isRedisConnected) :
            LET after == setEmailCode(viaSet, redisCodes, memCodes, email, code,
                                      VERIFICATION_CODE_EXPIRY, now)
            IN  /\ users' = MapSet(users, email, NewUser(email, password))
                /\ redisCodes' = after[1]
                /\ memCodes' = after[2]
                /\ UNCHANGED <<redisTokens, memTokens>>
                /\ resp' = IF mailOk
                           THEN Response("register", em, "", NoToken, Undefined,
                                         201, "", NoToken, NoToken)
                           ELSE Failure("register", em, "", NoToken, 500,
                                        "REGISTRATION_ERROR")
    /\ UNCHANGED <<now, ticks, statuses, inflight, isConnected, redis, history>>

\* POST /resend-verification
resendVerificationNotStoring(em, mailOk) ==
    LET email == toLowerCase(em) IN
    /\ IF email \notin DOMAIN users
       THEN /\ resp' = Failure("resend", em, "", NoToken, 404, "USER_NOT_FOUND")
            /\ UNCHANGED stores
       ELSE IF users[email].emailVerified
       THEN /\ resp' = Failure("resend", em, "", NoToken, 400, "EMAIL_ALREADY_VERIFIED")
            /\ UNCHANGED stores
       ELSE /\ UNCHANGED stores
            /\ resp' = IF mailOk
                       THEN Response("resend", em, "", NoToken, Undefined,
                                     200, "", NoToken, NoToken)
                       ELSE Failure("resend", em, "", NoToken, 500,
                                    "INTERNAL_SERVER_ERROR")
    /\ UNCHANGED <<users, now, ticks, statuses, inflight, isConnected, redis, history>>

resendVerification(em, mailOk) ==
    LET email == toLowerCase(em) IN
    /\ IF email \notin DOMAIN users
       THEN /\ resp' = Failure("resend", em, "", NoToken, 404, "USER_NOT_FOUND")
            /\ UNCHANGED stores
       ELSE IF users[email].emailVerified
       THEN /\ resp' = Failure("resend", em, "", NoToken, 400, "EMAIL_ALREADY_VERIFIED")
            /\ UNCHANGED stores
       ELSE \E code \in generateVerificationCode, viaSet \in Paths(isRedisConnected) :
            LET after == setEmailCode(viaSet, redisCodes, memCodes,
                                      users[email].email, code, 600, now)
            IN  /\ redisCodes' = after[1]
                /\ memCodes' = after[2]
                /\ UNCHANGED <<redisTokens, memTokens>>
                /\ resp' = IF mailOk
                           THEN Response("resend", em, "", NoToken, Undefined,
                                         200, "", NoToken, NoToken)
                           ELSE Failure("resend", em, "", NoToken, 500,
                                        "INTERNAL_SERVER_ERROR")
    /\ UNCHANGED <<users, now, ticks, statuses, inflight, isConnected, redis, history>>

\* the checks of AuthService.verifyEmail, in the order of the code
verifyEmailOutcomeCodeFirst(us, email, storedCode, vcode) ==
    IF email \notin DOMAIN us THEN "USER_NOT_FOUND"
    ELSE IF storedCode = "" THEN "CODE_EXPIRED"
    ELSE IF storedCode # vcode THEN "INVALID_CODE"
    ELSE IF us[email].emailVerified THEN "EMAIL_ALREADY_VERIFIED"
    ELSE "OK"

verifyEmailOutcomeNoVerifiedCheck(us, email, storedCode, vcode) ==
    IF email \notin DOMAIN us THEN "USER_NOT_FOUND"
    ELSE IF storedCode = "" THEN "CODE_EXPIRED"
    ELSE IF storedCode # vcode THEN "INVALID_CODE"
    ELSE "OK"

verifyEmailOutcomeMismatchFirst(us, email, storedCode, vcode) ==
    IF email \notin DOMAIN us THEN "USER_NOT_FOUND"
    ELSE IF us[email].emailVerified THEN "EMAIL_ALREADY_VERIFIED"
    ELSE IF storedCode # vcode THEN "INVALID_CODE"
    ELSE IF storedCode = "" THEN "CODE_EXPIRED"
    ELSE "OK"

verifyEmailOutcome(us, email, storedCode, vcode) ==
    IF email \notin DOMAIN us THEN "USER_NOT_FOUND"
    ELSE IF us[email].emailVerified THEN "EMAIL_ALREADY_VERIFIED"
    ELSE IF storedCode = "" THEN "CODE_EXPIRED"
    ELSE IF storedCode # vcode THEN "INVALID_CODE"
    ELSE "OK"

StatusOf(error) == IF error = "USER_NOT_FOUND" THEN 404 ELSE 400

\* user.emailVerified = true; await user.save()
markVerifiedForgotten(user) == user

markVerified(user) == [user EXCEPT !.emailVerified = TRUE]

\* AuthService.verifyEmail
verifyEmailDeleteOnMismatch(em, vcode) ==
    \E viaGet \in Paths(isRedisConnected) :
    LET email == toLowerCase(em)
        storedCode == IF email \in DOMAIN users
                      THEN getEmailCode(viaGet, redisCodes, memCodes,
                                        users[email].email, now)
                      ELSE ""
        outcome == verifyEmailOutcome(users, email, storedCode, vcode)
    IN
    /\ IF outcome # "OK"
       THEN /\ resp' = Failure("verifyEmail", em, vcode, NoToken,
                               StatusOf(outcome), outcome)
            /\ redisCodes' = IF outcome = "INVALID_CODE"
                             THEN deleteEmailCode(viaGet, redisCodes, memCodes, email)[1]
                             ELSE redisCodes
            /\ memCodes' = IF outcome = "INVALID_CODE"
                           THEN deleteEmailCode(viaGet, redisCodes, memCodes, email)[2]
                           ELSE memCodes
            /\ UNCHANGED <<users, redisTokens, memTokens, history>>
       ELSE \E viaDel \in Paths(isRedisConnected), viaSet \in Paths(isRedisConnected) :
            LET user == markVerified(users[email])
                codes == deleteEmailCode(viaDel, redisCodes, memCodes, user.email)
                accessToken == generateAccessToken(user.id, user.email, now)
                refreshToken == generateRefreshToken(user.id, now)
                tokens == setRefreshToken(viaSet, redisTokens, memTokens, user.id,
                                          refreshToken, REFRESH_TOKEN_TTL, now)
            IN  /\ users' = MapSet(users, email, user)
                /\ redisCodes' = codes[1]
                /\ memCodes' = codes[2]
                /\ redisTokens' = tokens[1]
                /\ memTokens' = tokens[2]
                /\ resp' = Response("verifyEmail", em, vcode, NoToken, user.id,
                                    200, "", accessToken, refreshToken)
                /\ issued' = issued \cup {accessToken, refreshToken}
                /\ verifiedWith' = MapSet(verifiedWith, email, vcode)
                /\ UNCHANGED <<rotated, revoked>>
    /\ UNCHANGED <<now, ticks, statuses, inflight, isConnected, redis>>

verifyEmail(em, vcode) ==
    \E viaGet \in Paths(isRedisConnected) :
    LET email == toLowerCase(em)
        storedCode == IF email \in DOMAIN users
                      THEN getEmailCode(viaGet, redisCodes, memCodes,
                                        users[email].email, now)
                      ELSE ""
        outcome == verifyEmailOutcome(users, email, storedCode, vcode)
    IN
    /\ IF outcome # "OK"
       THEN /\ resp' = Failure("verifyEmail", em, vcode, NoToken,
                               StatusOf(outcome), outcome)
            /\ UNCHANGED <<users, stores, history>>
       ELSE \E viaDel \in Paths(isRedisConnected), viaSet \in Paths(isRedisConnected) :
            LET user == markVerified(users[email])
                codes == deleteEmailCode(viaDel, redisCodes, memCodes, user.email)
                accessToken == generateAccessToken(user.id, user.email, now)
                refreshToken == generateRefreshToken(user.id, now)
                tokens == setRefreshToken(viaSet, redisTokens, memTokens, user.id,
                                          refreshToken, REFRESH_TOKEN_TTL, now)
            IN  /\ users' = MapSet(users, email, user)
                /\ redisCodes' = codes[1]
                /\ memCodes' = codes[2]
                /\ redisTokens' = tokens[1]
                /\ memTokens' = tokens[2]
                /\ resp' = Response("verifyEmail", em, vcode, NoToken, user.id,
                                    200, "", accessToken, refreshToken)
                /\ issued' = issued \cup {accessToken, refreshToken}
                /\ verifiedWith' = MapSet(verifiedWith, email, vcode)
                /\ UNCHANGED <<rotated, revoked>>
    /\ UNCHANGED <<now, ticks, statuses, inflight, isConnected, redis>>

\* storedToken !== refreshToken is false
storedTokenMatchesAnyStored(storedToken, refreshToken) == storedToken # NoToken

storedTokenMatches(storedToken, refreshToken) == storedToken = refreshToken

\* AuthService.refreshToken
refreshToken(token) ==
    /\ IF ~verifyRefreshToken(token, now)
       THEN /\ resp' = Failure("refreshToken", "", "", token, 401, "REFRESH_ERROR")
            /\ UNCHANGED <<stores, history>>
       ELSE \E viaGet \in Paths(isRedisConnected) :
            \E storedToken \in getRefreshToken(viaGet, redisTokens, memTokens,
                                               token.userId, now) :
            IF ~storedTokenMatches(storedToken, token)
            THEN /\ resp' = Failure("refreshToken", "", "", token, 401,
                                    "INVALID_REFRESH_TOKEN")
                 /\ UNCHANGED <<stores, history>>
            ELSE IF \A e \in findById(users, token.userId) : ~users[e].emailVerified
            THEN /\ resp' = Failure("refreshToken", "", "", token, 401,
                                    "USER_NOT_FOUND")
                 /\ UNCHANGED <<stores, history>>
            ELSE \E e \in findById(users, token.userId),
                    viaSet \in Paths(isRedisConnected) :
                 LET user == users[e]
                     newAccessToken == generateAccessToken(user.id, user.email, now)
                     newRefreshToken == generateRefreshToken(user.id, now)
                     tokens == setRefreshToken(viaSet, redisTokens, memTokens,
                                               user.id, newRefreshToken,
                                               7 * 24 * 60 * 60, now)
                 IN  /\ redisTokens' = tokens[1]
                     /\ memTokens' = tokens[2]
                     /\ UNCHANGED <<redisCodes, memCodes>>
                     /\ resp' = Response("refreshToken", "", "", token, user.id,
                                         200, "", newAccessToken, newRefreshToken)
                     /\ issued' = issued \cup {newAccessToken, newRefreshToken}
                     /\ rotated' = IF newRefreshToken # token
                                   THEN rotated \cup {token} ELSE rotated
                     /\ UNCHANGED <<verifiedWith, revoked>>
    /\ UNCHANGED <<users, now, ticks, statuses, inflight, isConnected, redis>>

\* AuthService.logout
logoutClearingPresence(userId) ==
    \E viaDel \in Paths(isRedisConnected) :
    LET tokens == invalidateAllRefreshTokens(viaDel, redisTokens, memTokens, userId)
    IN  /\ redisTokens' = tokens[1]
        /\ memTokens' = tokens[2]
        /\ redisStatuses' = IF viaDel THEN MapDel(redisStatuses, userId)
                            ELSE redisStatuses
        /\ memStatuses' = IF viaDel THEN memStatuses ELSE MapDel(memStatuses, userId)
        /\ resp' = Response("logout", "", "", NoToken, userId, 200, "",
                            NoToken, NoToken)
        /\ revoked' = revoked \cup
                      {t \in issued : t.type = "refresh" /\ t.userId = userId}
        /\ UNCHANGED <<users, now, ticks, inflight, isConnected, redis,
                       redisCodes, memCodes,
                       issued, verifiedWith, rotated>>

logout(userId) ==
    \E viaDel \in Paths(isRedisConnected) :
    LET tokens == invalidateAllRefreshTokens(viaDel, redisTokens, memTokens, userId)
    IN  /\ redisTokens' = tokens[1]
        /\ memTokens' = tokens[2]
        /\ resp' = Response("logout", "", "", NoToken, userId, 200, "",
                            NoToken, NoToken)
        /\ revoked' = revoked \cup
                      {t \in issued : t.type = "refresh" /\ t.userId = userId}
        /\ UNCHANGED <<users, now, ticks, statuses, inflight, isConnected, redis,
                       redisCodes, memCodes,
                       issued, verifiedWith, rotated>>

\* middleware authenticateToken; status 200 stands for next() with req.user set
authenticateTokenTrustingToken(token) ==
    /\ resp' =
         IF token = NoToken
         THEN Failure("authenticate", "", "", token, 401, "ACCESS_TOKEN_REQUIRED")
         ELSE IF ~verifyAccessToken(token, now)
         THEN Failure("authenticate", "", "", token, 401, "AUTHENTICATION_FAILED")
         ELSE IF findById(users, token.userId) = {}
         THEN Failure("authenticate", "", "", token, 401, "USER_NOT_FOUND")
         ELSE Response("authenticate", "", "", token, token.userId, 200, "",
                       NoToken, NoToken)
    /\ UNCHANGED <<users, now, ticks, statuses, inflight, isConnected, redis, stores, history>>

authenticateToken(token) ==
    /\ resp' =
         IF token = NoToken
         THEN Failure("authenticate", "", "", token, 401, "ACCESS_TOKEN_REQUIRED")
         ELSE IF ~verifyAccessToken(token, now)
         THEN Failure("authenticate", "", "", token, 401, "AUTHENTICATION_FAILED")
         ELSE IF findById(users, token.userId) = {}
         THEN Failure("authenticate", "", "", token, 401, "USER_NOT_FOUND")
         ELSE IF \A e \in findById(users, token.userId) : ~users[e].emailVerified
         THEN Failure("authenticate", "", "", token, 401, "EMAIL_NOT_VERIFIED")
         ELSE Response("authenticate", "", "", token, token.userId, 200, "",
                       NoToken, NoToken)
    /\ UNCHANGED <<users, now, ticks, statuses, inflight, isConnected, redis, stores, history>>

\* ------------------------------------------------------------------ inputs
\* tokens a client can present: every token handed out so far, tokens signed
\* now with the shared secret, a token with a foreign signature, or none
Crafted(t) ==
    {generateRefreshToken(u, t) : u \in UserIds \cup {GhostId}}
    \cup {generateAccessToken(IdOf(e), e, t) : e \in LowerEmails}
    \cup {[generateRefreshToken(u, t) EXCEPT !.sig = "foreign"] : u \in UserIds}

Presentable == issued \cup Crafted(now)

Next ==
    \/ \E d \in Deltas : Tick(d)
    \/ RedisReady
    \/ RedisClosed
    \/ \E em \in RawEmails, password \in Passwords, mailOk \in BOOLEAN :
          register(em, password, mailOk)
    \/ \E em \in RawEmails, mailOk \in BOOLEAN : resendVerification(em, mailOk)
    \/ \E em \in RawEmails, vcode \in SubmitCodes : verifyEmail(em, vcode)
    \/ \E token \in Presentable : refreshToken(token)
    \/ \E userId \in UserIds : logout(userId)
    \/ \E token \in Presentable \cup {NoToken} : authenticateToken(token)

Spec == Init /\ [][Next]_vars

\* ------------------------------------------------------------- properties
\* refresh credentials held for an identity in the remote store / fallback
RemoteTokens(rt, userId, t) == redisSmembers(rt, userId, t)

FallbackTokens(mt, userId, t) ==
    IF userId \in DOMAIN mt /\ mt[userId].expiresAt > t
    THEN {mt[userId].tokens[i] : i \in 1..Len(mt[userId].tokens)}
    ELSE {}

Verified(userId) == \E e \in findById(users, userId) : users[e].emailVerified

\* C1: every access/refresh pair returned by verifyEmail or refreshToken goes
\* to an identity whose durable verified flag is true when the pair is issued;
\* no token is ever held by an identity that is not verified.
C1_PairOnlyToVerified ==
    /\ (resp.op \in {"verifyEmail", "refreshToken"} /\ resp.refreshToken # NoToken)
          => Verified(resp.userId)
    /\ \A t \in issued : Verified(t.userId)

C1_Witness ==
    /\ resp.op = "refreshToken"
    /\ resp.status = 200
    /\ resp.refreshToken \in issued

\* C2: the identity record only moves unregistered -> pending -> verified:
\* a record appears only through register and with verified = false, the flag
\* becomes true only through a successful verifyEmail, and no step removes a
\* record or resets the flag.
C2_OneWayLifecycle ==
    [][ /\ DOMAIN users \subseteq DOMAIN users'
        /\ \A e \in DOMAIN users' :
             /\ e \notin DOMAIN users =>
                   (~users'[e].emailVerified /\ resp'.op = "register")
             /\ (e \in DOMAIN users /\ users[e].emailVerified) =>
                   users'[e].emailVerified
             /\ (e \in DOMAIN users /\ ~users[e].emailVerified
                   /\ users'[e].emailVerified) =>
                   (resp'.op = "verifyEmail" /\ resp'.status = 200) ]_vars

C2_Witness ==
    /\ \E e \in DOMAIN users : users[e].emailVerified
    /\ resp.op = "register"
    /\ resp.error = "EMAIL_ALREADY_EXISTS"

\* a verifyEmail call that repeats the code of the earlier successful
\* verifyEmail of the same identity
RepeatedVerify ==
    /\ resp.op = "verifyEmail"
    /\ resp.status # 200
    /\ toLowerCase(resp.email) \in DOMAIN verifiedWith
    /\ verifiedWith[toLowerCase(resp.email)] = resp.vcode

VerifyEmailServed == resp'.op = "verifyEmail" /\ verifyEmail(resp'.email, resp'.vcode)

\* a step in which refreshToken serves the request recorded in resp'
RefreshTokenServed == resp'.op = "refreshToken" /\ refreshToken(resp'.token)

\* C4: for an identity that is already verified every verifyEmail call fails
\* with EMAIL_ALREADY_VERIFIED, whatever code is submitted and whatever the
\* code stores hold, returns no token pair and leaves the refresh-credential
\* stores untouched.
C4_VerifiedRejectsVerify ==
    [][ ( /\ VerifyEmailServed
          /\ toLowerCase(resp'.email) \in DOMAIN users
          /\ users[toLowerCase(resp'.email)].emailVerified )
        => /\ resp'.error = "EMAIL_ALREADY_VERIFIED"
           /\ resp'.accessToken = NoToken
           /\ resp'.refreshToken = NoToken
           /\ issued' = issued
           /\ UNCHANGED <<redisTokens, memTokens>> ]_vars

C4_Witness ==
    /\ resp.op = "verifyEmail"
    /\ resp.error = "EMAIL_ALREADY_VERIFIED"
    /\ (DOMAIN redisCodes) \cup (DOMAIN memCodes) # {}

\* C5: once refreshToken(R1) has succeeded and returned a different token R2,
\* every later refreshToken(R1) with R1 still well-formed and unexpired fails
\* with INVALID_REFRESH_TOKEN.
C5_RotationInvalidatesPredecessor ==
    [][ ( /\ RefreshTokenServed
          /\ resp'.token \in rotated
          /\ verifyRefreshToken(resp'.token, now) )
        => (resp'.status = 401 /\ resp'.error = "INVALID_REFRESH_TOKEN") ]_vars

\* C6: refreshToken rejects a presented credential that is in neither the
\* remote nor the fallback credential set of its identity, also when it is
\* correctly signed, of type refresh and unexpired; it issues nothing and
\* leaves the stored sets unchanged.
C6_UnstoredTokenRejected ==
    [][ ( /\ RefreshTokenServed
          /\ resp'.token \notin RemoteTokens(redisTokens, resp'.token.userId, now)
          /\ resp'.token \notin FallbackTokens(memTokens, resp'.token.userId, now) )
        => /\ resp'.status = 401
           /\ verifyRefreshToken(resp'.token, now)
                 => resp'.error = "INVALID_REFRESH_TOKEN"
           /\ resp'.accessToken = NoToken
           /\ resp'.refreshToken = NoToken
           /\ issued' = issued
           /\ UNCHANGED <<redisTokens, memTokens>> ]_vars

C6_Witness ==
    /\ resp.op = "refreshToken"
    /\ resp.error = "INVALID_REFRESH_TOKEN"
    /\ verifyRefreshToken(resp.token, now)
    /\ Verified(resp.token.userId)
    /\ resp.token \notin RemoteTokens(redisTokens, resp.token.userId, now)
    /\ resp.token \notin FallbackTokens(memTokens, resp.token.userId, now)
    /\ RemoteTokens(redisTokens, resp.token.userId, now)
         \cup FallbackTokens(memTokens, resp.token.userId, now) # {}

\* the credential just issued is stored, and alone in each set that holds it
OnlyCredential(rt, mt, userId, token, t) ==
    LET remote == RemoteTokens(rt, userId, t)
        fallback == FallbackTokens(mt, userId, t)
    IN  /\ token \in remote \cup fallback
        /\ token \in remote => remote = {token}
        /\ token \in fallback => fallback = {token}

\* C7: after every successful verifyEmail or refreshToken the credential set
\* stored for the identity holds exactly the credential just issued.
C7_StoreHoldsOnlyNewCredential ==
    [][ ((VerifyEmailServed \/ RefreshTokenServed) /\ resp'.status = 200)
        => OnlyCredential(redisTokens', memTokens', resp'.userId,
                          resp'.refreshToken, now) ]_vars

\* C8: after logout(identity) every refreshToken with a refresh token issued
\* to that identity before the logout fails with 401, and a logout with
\* nothing stored succeeds and changes nothing.
C8_LogoutRevokesAll ==
    [][ /\ (RefreshTokenServed /\ resp'.token \in revoked) => resp'.status = 401
        /\ ( /\ resp'.op = "logout"
             /\ logout(resp'.userId)
             /\ RemoteTokens(redisTokens, resp'.userId, now) = {}
             /\ FallbackTokens(memTokens, resp'.userId, now) = {} )
           => (resp'.status = 200 /\ UNCHANGED <<users, stores>>) ]_vars

\* C9: verifyRefreshToken rejects every token made by generateAccessToken, so
\* refreshToken called with an access token fails and issues nothing.
C9_AccessTokenNotRefresh ==
    /\ \A t \in Presentable : t.type # "refresh" => ~verifyRefreshToken(t, now)
    /\ (resp.op = "refreshToken" /\ resp.token.type # "refresh")
          => /\ resp.status = 401
             /\ resp.accessToken = NoToken
             /\ resp.refreshToken = NoToken

C9_Witness ==
    /\ resp.op = "refreshToken"
    /\ resp.token \in issued
    /\ resp.token.type # "refresh"
    /\ jwtVerify(resp.token, now)
    /\ resp.status = 401

\* C10: verifyAccessToken fails for every token made by generateRefreshToken,
\* so authenticateToken never admits a request whose bearer token is a
\* refresh token.
C10_RefreshTokenNotAccess ==
    (resp.op = "authenticate" /\ resp.token \in issued /\ resp.token.type = "refresh")
        => (~verifyAccessToken(resp.token, now) /\ resp.status # 200)


\* ------------------------------------- the adapter, reachable / unreachable
\* Two runs of the same sequence of adapter calls side by side: redisCodes and
\* redisTokens belong to the run in which the remote store serves every call,
\* memCodes and memTokens to the run in which the fallback serves every call.
\* resp holds the last call and the result each run returned.

\* number of clock advances explored in the side-by-side runs
MaxElapses == 2

\* a lifetime of a code, and the rest of a lifetime of a refresh credential
Elapses == {VERIFICATION_CODE_EXPIRY, REFRESH_TOKEN_TTL - VERIFICATION_CODE_EXPIRY}

\* refresh credentials handed to the adapter
AdapterTokens == {generateRefreshToken(u, t) : u \in UserIds, t \in {0, 600}}

Result(op, remote, fallback) == [op |-> op, remote |-> remote, fallback |-> fallback]

\* redis.del(key) > 0
redisDelResult(m, key, t) == key \in DOMAIN m /\ m[key].expiresAt > t

\* Map.prototype.delete(key)
memDelResult(m, key) == key \in DOMAIN m

AdapterInit ==
    /\ users = EmptyMap
    /\ now = 0
    /\ ticks = 0
    /\ isConnected = FALSE
    /\ redis = Client
    /\ redisCodes = EmptyMap
    /\ redisTokens = EmptyMap
    /\ memCodes = EmptyMap
    /\ memTokens = EmptyMap
    /\ redisStatuses = EmptyMap
    /\ memStatuses = EmptyMap
    /\ inflight = EmptyMap
    /\ resp = Result("none", "", "")
    /\ issued = {}
    /\ verifiedWith = EmptyMap
    /\ rotated = {}
    /\ revoked = {}

Elapse(d) ==
    /\ ticks < MaxElapses
    /\ ticks' = ticks + 1
    /\ now' = now + d
    /\ redisCodes' = Unexpired(redisCodes, now + d)
    /\ redisTokens' = Unexpired(redisTokens, now + d)
    /\ memCodes' = Unexpired(memCodes, now + d)
    /\ memTokens' = Unexpired(memTokens, now + d)
    /\ redisStatuses' = Unexpired(redisStatuses, now + d)
    /\ memStatuses' = Unexpired(memStatuses, now + d)
    /\ UNCHANGED <<users, isConnected, redis, inflight, resp, history>>

callSetEmailCode(email, code) ==
    /\ redisCodes' = setEmailCode(TRUE, redisCodes, memCodes, email, code,
                                  VERIFICATION_CODE_EXPIRY, now)[1]
    /\ memCodes' = setEmailCode(FALSE, redisCodes, memCodes, email, code,
                                VERIFICATION_CODE_EXPIRY, now)[2]
    /\ resp' = Result("setEmailCode", TRUE, TRUE)
    /\ UNCHANGED <<users, now, ticks, statuses, inflight, isConnected, redis,
                   redisTokens, memTokens, history>>

callGetEmailCode(email) ==
    /\ resp' = Result("getEmailCode",
                      getEmailCode(TRUE, redisCodes, memCodes, email, now),
                      getEmailCode(FALSE, redisCodes, memCodes, email, now))
    /\ UNCHANGED <<users, now, ticks, statuses, inflight, isConnected, redis, stores, history>>

callDeleteEmailCode(email) ==
    /\ redisCodes' = deleteEmailCode(TRUE, redisCodes, memCodes, email)[1]
    /\ memCodes' = deleteEmailCode(FALSE, redisCodes, memCodes, email)[2]
    /\ resp' = Result("deleteEmailCode",
                      redisDelResult(redisCodes, emailCodeKey(email), now),
                      memDelResult(memCodes, email))
    /\ UNCHANGED <<users, now, ticks, statuses, inflight, isConnected, redis,
                   redisTokens, memTokens, history>>

callSetRefreshToken(userId, token) ==
    /\ redisTokens' = setRefreshToken(TRUE, redisTokens, memTokens, userId, token,
                                      REFRESH_TOKEN_TTL, now)[1]
    /\ memTokens' = setRefreshToken(FALSE, redisTokens, memTokens, userId, token,
                                    REFRESH_TOKEN_TTL, now)[2]
    /\ resp' = Result("setRefreshToken", TRUE, TRUE)
    /\ UNCHANGED <<users, now, ticks, statuses, inflight, isConnected, redis,
                   redisCodes, memCodes, history>>

callGetRefreshToken(userId) ==
    /\ \E remote \in getRefreshToken(TRUE, redisTokens, memTokens, userId, now),
          fallback \in getRefreshToken(FALSE, redisTokens, memTokens, userId, now) :
          resp' = Result("getRefreshToken", remote, fallback)
    /\ UNCHANGED <<users, now, ticks, statuses, inflight, isConnected, redis, stores, history>>

callInvalidateAllRefreshTokens(userId) ==
    /\ redisTokens' = invalidateAllRefreshTokens(TRUE, redisTokens, memTokens, userId)[1]
    /\ memTokens' = invalidateAllRefreshTokens(FALSE, redisTokens, memTokens, userId)[2]
    /\ resp' = Result("invalidateAllRefreshTokens",
                      redisDelResult(redisTokens, userId, now),
                      memDelResult(memTokens, userId))
    /\ UNCHANGED <<users, now, ticks, statuses, inflight, isConnected, redis,
                   redisCodes, memCodes, history>>

AdapterNext ==
    \/ \E d \in Elapses : Elapse(d)
    \/ \E email \in RawEmails, code \in generateVerificationCode :
          callSetEmailCode(email, code)
    \/ \E email \in RawEmails : callGetEmailCode(email)
    \/ \E email \in RawEmails : callDeleteEmailCode(email)
    \/ \E userId \in UserIds, token \in AdapterTokens :
          callSetRefreshToken(userId, token)
    \/ \E userId \in UserIds : callGetRefreshToken(userId)
    \/ \E userId \in UserIds : callInvalidateAllRefreshTokens(userId)

AdapterSpec == AdapterInit /\ [][AdapterNext]_vars

\* the codes half of transparency: a read or a delete of a verification code
\* returns the same in the run served by the fallback as in the run served
\* by the remote store
EmailCodesTransparent ==
    resp.op \in {"getEmailCode", "deleteEmailCode"} => resp.remote = resp.fallback

\* C11: for every sequence of set/get/delete calls on refresh credentials and
\* every passage of time, the run served by the fallback returns what the run
\* served by the remote store returns: getRefreshToken finds a credential in
\* both runs or in neither (same presence/absence, same TTL expiry), and
\* invalidateAllRefreshTokens returns the same result.
C11_FallbackTransparent ==
    /\ resp.op = "getRefreshToken"
          => ((resp.remote = NoToken) <=> (resp.fallback = NoToken))
    /\ resp.op = "invalidateAllRefreshTokens" => resp.remote = resp.fallback


\* the entry a verification code was last written to, on either path
CodeEntries(viaRemote, rc, mc) == IF viaRemote THEN rc ELSE mc

\* C12: a verification code read once its TTL has elapsed since the set that
\* wrote it is reported absent, on the remote path and on the fallback path
\* alike; and verifyEmail for a pending identity all of whose codes have
\* expired fails with CODE_EXPIRED and returns no token.
C12_ExpiredCodeAbsent ==
    [][ /\ \A email \in LowerEmails, viaRemote \in BOOLEAN :
             (/\ email \in DOMAIN CodeEntries(viaRemote, redisCodes, memCodes)
              /\ CodeEntries(viaRemote, redisCodes, memCodes)[email].expiresAt <= now')
                => getEmailCode(viaRemote, redisCodes, memCodes, email, now') = ""
        /\ (/\ VerifyEmailServed
            /\ toLowerCase(resp'.email) \in DOMAIN users
            /\ ~users[toLowerCase(resp'.email)].emailVerified
            /\ \A viaRemote \in BOOLEAN :
                  getEmailCode(viaRemote, redisCodes, memCodes,
                               toLowerCase(resp'.email), now) = "")
              => (resp'.error = "CODE_EXPIRED" /\ resp'.refreshToken = NoToken)
      ]_vars

C12_Witness ==
    /\ resp.op = "verifyEmail"
    /\ resp.error = "CODE_EXPIRED"
    /\ toLowerCase(resp.email) \in DOMAIN users
    /\ now >= VERIFICATION_CODE_EXPIRY


\* C13: a verifyEmail that fails with INVALID_CODE leaves the stored code and
\* its expiry, the identity's verified flag and the refresh-credential store
\* unchanged, so that the code it was compared with is still stored afterwards
\* and a verifyEmail submitting that code passes every check; this holds for
\* each wrong attempt, hence after any number of them.
C13_InvalidCodeChangesNothing ==
    [][ (VerifyEmailServed /\ resp'.error = "INVALID_CODE")
          => /\ UNCHANGED <<users, redisCodes, memCodes, redisTokens, memTokens>>
             /\ resp'.refreshToken = NoToken
             /\ \E viaGet \in Paths(isRedisConnected') :
                   LET email == toLowerCase(resp'.email)
                       storedCode == getEmailCode(viaGet, redisCodes', memCodes',
                                                  email, now')
                   IN  /\ storedCode \notin {"", resp'.vcode}
                       /\ verifyEmailOutcome(users', email, storedCode, storedCode) = "OK"
      ]_vars

C13_Witness ==
    /\ resp.op = "verifyEmail"
    /\ resp.error = "INVALID_CODE"
    /\ \E viaGet \in Paths(isRedisConnected) :
          getEmailCode(viaGet, redisCodes, memCodes, toLowerCase(resp.email), now)
             \notin {"", resp.vcode}


\* a step that serves POST /resend-verification
ResendServed ==
    resp'.op = "resend" /\ resendVerification(resp'.email, resp'.status = 200)

\* the unexpired codes a getEmailCode for the e-mail can return, whichever
\* store serves it
ReadableCodes(rc, mc, email, t) ==
    {getEmailCode(viaRemote, rc, mc, email, t) : viaRemote \in BOOLEAN} \ {""}

\* C14: resendVerification for a pending identity overwrites the previous
\* code: once it has stored the new code, the new code is the one a
\* getEmailCode returns and no different, previous code is returned by any
\* store although its TTL has not elapsed, so verifyEmail with the previous
\* code fails and verifyEmail with the new code succeeds.
C14_ResendOverwritesPrevious ==
    [][ (ResendServed /\ resp'.status = 200)
          => LET email == toLowerCase(resp'.email) IN
             \E code \in generateVerificationCode :
                /\ \E viaGet \in Paths(isRedisConnected') :
                      getEmailCode(viaGet, redisCodes', memCodes', email, now') = code
                /\ ReadableCodes(redisCodes', memCodes', email, now') = {code}
      ]_vars

\* a verifyEmail has succeeded with a code while a different unexpired code
\* is stored for the same e-mail
AcceptedBesideOtherCode ==
    /\ resp.op = "verifyEmail"
    /\ resp.status = 200
    /\ ReadableCodes(redisCodes, memCodes, toLowerCase(resp.email), now)
          \ {resp.vcode} # {}


\* a step that serves AuthService.register
RegisterServed ==
    /\ resp'.op = "register"
    /\ \E password \in Passwords : register(resp'.email, password, resp'.status = 201)

\* two spellings of one address
EqualIgnoringCase(a, b) == a = b \/ {a, b} = {"a@x.com", "A@x.com"}

\* C15: register with an e-mail that already has an identity record, in any
\* letter case and whether that identity is pending or verified, fails with
\* 409 EMAIL_ALREADY_EXISTS and changes nothing: no record is added, the
\* existing record's password hash and verified flag are untouched, and no
\* verification code is written or overwritten.
C15_ExistingEmailRejected ==
    [][ (RegisterServed /\ \E e \in DOMAIN users : EqualIgnoringCase(e, resp'.email))
          => /\ resp'.status = 409
             /\ resp'.error = "EMAIL_ALREADY_EXISTS"
             /\ UNCHANGED <<users, redisCodes, memCodes, redisTokens, memTokens>>
      ]_vars

C15_Witness ==
    /\ resp.op = "register"
    /\ resp.error = "EMAIL_ALREADY_EXISTS"
    /\ resp.email = "A@x.com"
    /\ "a@x.com" \in DOMAIN users
    /\ users["a@x.com"].emailVerified


\* a register step whose e-mail dispatch failed: the record was saved and the
\* call did not return 201
RegisterDispatchFailed == RegisterServed /\ users' # users /\ resp'.status # 201

\* what is left behind by a register whose dispatch failed: the record is
\* kept and pending, its code is stored and passes the checks of verifyEmail,
\* and resendVerification is not refused
DispatchFailureKeepsRecord ==
    [][ RegisterDispatchFailed
          => LET email == toLowerCase(resp'.email) IN
             /\ email \in DOMAIN users'
             /\ ~users'[email].emailVerified
             /\ \E viaGet \in Paths(isRedisConnected') :
                   LET storedCode == getEmailCode(viaGet, redisCodes', memCodes',
                                                  email, now')
                   IN  verifyEmailOutcome(users', email, storedCode, storedCode) = "OK"
      ]_vars

\* C16: when e-mail dispatch fails during register, the failure is surfaced
\* under the dispatch failure's own error code (EmailDispatchFailed), the
\* identity record created in the call is kept and stays pending, the stored
\* code stays valid and resendVerification remains available.
C16_DispatchFailureSurfaced ==
    [][ RegisterDispatchFailed
          => /\ resp'.error = "EMAIL_DISPATCH_FAILED"
             /\ toLowerCase(resp'.email) \in DOMAIN users'
             /\ ~users'[toLowerCase(resp'.email)].emailVerified
      ]_vars


\* a step that serves a request through the authenticateToken middleware
AuthenticateServed == resp'.op = "authenticate" /\ authenticateToken(resp'.token)

\* C17: the authenticate gate checks the durable record on every request: a
\* request with a validly signed, unexpired access token is rejected with
\* USER_NOT_FOUND when the identity it names does not exist and with
\* EMAIL_NOT_VERIFIED when that identity is not verified, and req.user is set
\* (the request is let through) only when the identity exists and is verified.
C17_GateChecksRecord ==
    [][ AuthenticateServed
          => LET token == resp'.token
                 named == findById(users, token.userId)
             IN  /\ (verifyAccessToken(token, now) /\ named = {})
                       => (resp'.status = 401 /\ resp'.error = "USER_NOT_FOUND")
                 /\ (verifyAccessToken(token, now) /\ named # {}
                        /\ \A e \in named : ~users[e].emailVerified)
                       => (resp'.status = 401 /\ resp'.error = "EMAIL_NOT_VERIFIED")
                 /\ resp'.status = 200
                       => (/\ resp'.userId = token.userId
                           /\ \E e \in named : users[e].emailVerified)
      ]_vars

C17_Witness ==
    /\ resp.op = "authenticate"
    /\ resp.error = "EMAIL_NOT_VERIFIED"
    /\ verifyAccessToken(resp.token, now)
    /\ \E e \in findById(users, resp.token.userId) : ~users[e].emailVerified


\* -------------------------------- the adapter under connectivity and faults
\* Every adapter operation called directly, with the remote store connected
\* or not and its command throwing or not.  resp holds the call, the store
\* that served it, the value returned and the value the fallback returns for
\* the same call.
USER_STATUS_TTL == 300

StatusValues == {"online"}

Outcome(op, connected, threw, served, result, fallback) ==
    [op |-> op, connected |-> connected, threw |-> threw, served |-> served,
     result |-> result, fallback |-> fallback]

\* the value a call returns: the remote command's, the fallback's, or none
Returned(served, remote, fallback) ==
    IF served = "remote" THEN remote ELSE IF served = "fallback" THEN fallback
    ELSE "error"

\* the stores after a call: written by the store that served it
Written(served, after, before) ==
    IF served = "remote" THEN <<after[1], before[2]>>
    ELSE IF served = "fallback" THEN <<before[1], after[2]>>
    ELSE before

opSetEmailCode(email, code, commandThrows) ==
    LET served == Served(isRedisConnected, commandThrows)
        after == Written(served,
                         setEmailCode(served = "remote", redisCodes, memCodes, email,
                                      code, VERIFICATION_CODE_EXPIRY, now),
                         <<redisCodes, memCodes>>)
    IN  /\ redisCodes' = after[1]
        /\ memCodes' = after[2]
        /\ resp' = Outcome("setEmailCode", isRedisConnected, commandThrows, served,
                           Returned(served, TRUE, TRUE), TRUE)
        /\ UNCHANGED <<users, now, ticks, statuses, inflight, isConnected, redis,
                       redisTokens, memTokens, history>>

opGetEmailCode(email, commandThrows) ==
    LET served == Served(isRedisConnected, commandThrows)
    IN  /\ resp' = Outcome("getEmailCode", isRedisConnected, commandThrows, served,
                           Returned(served,
                                    getEmailCode(TRUE, redisCodes, memCodes, email, now),
                                    getEmailCode(FALSE, redisCodes, memCodes, email, now)),
                           memGetEmailCode(memCodes, email, now))
        /\ UNCHANGED <<users, now, ticks, statuses, inflight, isConnected, redis, stores,
                       history>>

opDeleteEmailCode(email, commandThrows) ==
    LET served == Served(isRedisConnected, commandThrows)
        after == Written(served,
                         deleteEmailCode(served = "remote", redisCodes, memCodes, email),
                         <<redisCodes, memCodes>>)
    IN  /\ redisCodes' = after[1]
        /\ memCodes' = after[2]
        /\ resp' = Outcome("deleteEmailCode", isRedisConnected, commandThrows, served,
                           Returned(served,
                                    redisDelResult(redisCodes, emailCodeKey(email), now),
                                    memDelResult(memCodes, email)),
                           memDelResult(memCodes, email))
        /\ UNCHANGED <<users, now, ticks, statuses, inflight, isConnected, redis,
                       redisTokens, memTokens, history>>

opSetRefreshToken(userId, token, commandThrows) ==
    LET served == Served(isRedisConnected, commandThrows)
        after == Written(served,
                         setRefreshToken(served = "remote", redisTokens, memTokens,
                                         userId, token, REFRESH_TOKEN_TTL, now),
                         <<redisTokens, memTokens>>)
    IN  /\ redisTokens' = after[1]
        /\ memTokens' = after[2]
        /\ resp' = Outcome("setRefreshToken", isRedisConnected, commandThrows, served,
                           Returned(served, TRUE, TRUE), TRUE)
        /\ UNCHANGED <<users, now, ticks, statuses, inflight, isConnected, redis,
                       redisCodes, memCodes, history>>

opGetRefreshToken(userId, commandThrows) ==
    LET served == Served(isRedisConnected, commandThrows)
    IN  /\ \E remote \in getRefreshToken(TRUE, redisTokens, memTokens, userId, now),
              fallback \in getRefreshToken(FALSE, redisTokens, memTokens, userId, now) :
              resp' = Outcome("getRefreshToken", isRedisConnected, commandThrows, served,
                              Returned(served, remote, fallback),
                              memGetRefreshToken(memTokens, userId, now))
        /\ UNCHANGED <<users, now, ticks, statuses, inflight, isConnected, redis, stores,
                       history>>

opInvalidateAllRefreshTokens(userId, commandThrows) ==
    LET served == Served(isRedisConnected, commandThrows)
        after == Written(served,
                         invalidateAllRefreshTokens(served = "remote", redisTokens,
                                                    memTokens, userId),
                         <<redisTokens, memTokens>>)
    IN  /\ redisTokens' = after[1]
        /\ memTokens' = after[2]
        /\ resp' = Outcome("invalidateAllRefreshTokens", isRedisConnected, commandThrows,
                           served,
                           Returned(served, redisDelResult(redisTokens, userId, now),
                                    memDelResult(memTokens, userId)),
                           memDelResult(memTokens, userId))
        /\ UNCHANGED <<users, now, ticks, statuses, inflight, isConnected, redis,
                       redisCodes, memCodes, history>>

opSetUserStatus(userId, status, commandThrows) ==
    LET served == Served(isRedisConnected, commandThrows)
        after == Written(served,
                         setUserStatus(served = "remote", redisStatuses, memStatuses,
                                       userId, status, USER_STATUS_TTL, now),
                         <<redisStatuses, memStatuses>>)
    IN  /\ redisStatuses' = after[1]
        /\ memStatuses' = after[2]
        /\ resp' = Outcome("setUserStatus", isRedisConnected, commandThrows, served,
                           Returned(served, TRUE, TRUE), TRUE)
        /\ UNCHANGED <<users, now, ticks, inflight, isConnected, redis, stores, history>>

opGetUserStatus(userId, commandThrows) ==
    LET served == Served(isRedisConnected, commandThrows)
    IN  /\ resp' = Outcome("getUserStatus", isRedisConnected, commandThrows, served,
                           Returned(served,
                                    getUserStatus(TRUE, redisStatuses, memStatuses,
                                                  userId, now),
                                    getUserStatus(FALSE, redisStatuses, memStatuses,
                                                  userId, now)),
                           memGetUserStatus(memStatuses, userId, now))
        /\ UNCHANGED <<users, now, ticks, statuses, inflight, isConnected, redis, stores,
                       history>>

FailoverNext ==
    \/ \E d \in Deltas : Tick(d)
    \/ RedisReady
    \/ RedisClosed
    \/ \E email \in LowerEmails, code \in generateVerificationCode,
          commandThrows \in BOOLEAN : opSetEmailCode(email, code, commandThrows)
    \/ \E email \in LowerEmails, commandThrows \in BOOLEAN :
          opGetEmailCode(email, commandThrows)
    \/ \E email \in LowerEmails, commandThrows \in BOOLEAN :
          opDeleteEmailCode(email, commandThrows)
    \/ \E userId \in UserIds, commandThrows \in BOOLEAN :
          opSetRefreshToken(userId, generateRefreshToken(userId, 0), commandThrows)
    \/ \E userId \in UserIds, commandThrows \in BOOLEAN :
          opGetRefreshToken(userId, commandThrows)
    \/ \E userId \in UserIds, commandThrows \in BOOLEAN :
          opInvalidateAllRefreshTokens(userId, commandThrows)
    \/ \E userId \in UserIds, status \in StatusValues, commandThrows \in BOOLEAN :
          opSetUserStatus(userId, status, commandThrows)
    \/ \E userId \in UserIds, commandThrows \in BOOLEAN :
          opGetUserStatus(userId, commandThrows)

FailoverSpec == Init /\ [][FailoverNext]_vars

\* C18: no adapter operation surfaces an error to its caller, and whenever
\* the remote store is disconnected or its command fails, the operation is
\* executed against the in-process fallback and the fallback's result is
\* what the caller gets.
C18_AdapterNeverThrows ==
    resp.op # "none"
       => /\ resp.served \in {"remote", "fallback"}
          /\ (~resp.connected \/ resp.threw)
                => (resp.served = "fallback" /\ resp.result = resp.fallback)

C18_Witness ==
    /\ resp.op = "getUserStatus"
    /\ resp.connected
    /\ resp.threw
    /\ resp.result = "online"


\* C19: refreshToken does not distinguish its rejection causes: a token that
\* fails the structural check (bad signature, expired, not of type refresh)
\* and a well-formed token that is not stored for its identity are both
\* rejected with the one error code INVALID_REFRESH_TOKEN.
C19_RejectionsIndistinguishable ==
    [][ (/\ RefreshTokenServed
         /\ \/ ~verifyRefreshToken(resp'.token, now)
            \/ resp'.token \notin
                  (RemoteTokens(redisTokens, resp'.token.userId, now)
                   \cup FallbackTokens(memTokens, resp'.token.userId, now)))
          => (resp'.status = 401 /\ resp'.error = "INVALID_REFRESH_TOKEN")
      ]_vars


\* ------------------------------------------- verifyEmail, request by request
\* AuthService.verifyEmail as the steps between its awaits, for requests that
\* are in flight together.  inflight[r] holds the position of request r, its
\* arguments, the record it loaded and, once it has returned, its response.
Requests == {1, 2}

Call(pc, em, vcode, user, status, error, access, refresh) ==
    [pc |-> pc, em |-> em, vcode |-> vcode, user |-> user, status |-> status,
     error |-> error, accessToken |-> access, refreshToken |-> refresh]

\* the request has thrown an HttpError
Thrown(call, status, error) ==
    [call EXCEPT !.pc = "done", !.status = status, !.error = error]

NoUser == [id |-> Undefined, email |-> Undefined, passwordHash |-> Undefined,
           emailVerified |-> FALSE]

\* const user = await User.findOne(...); the checks on the loaded record
verifyEmailFindOne(r, em, vcode) ==
    LET email == toLowerCase(em)
        call == Call("getEmailCode", em, vcode,
                     IF email \in DOMAIN users THEN users[email] ELSE NoUser,
                     0, "", NoToken, NoToken)
    IN  /\ r \notin DOMAIN inflight
        /\ inflight' =
              MapSet(inflight, r,
                     IF email \notin DOMAIN users THEN Thrown(call, 404, "USER_NOT_FOUND")
                     ELSE IF users[email].emailVerified
                     THEN Thrown(call, 400, "EMAIL_ALREADY_VERIFIED")
                     ELSE call)
        /\ UNCHANGED <<users, now, ticks, isConnected, redis, stores, statuses, resp, history>>

\* const storedCode = await getEmailCode(user.email); the checks on it
verifyEmailGetEmailCode(r) ==
    /\ r \in DOMAIN inflight
    /\ inflight[r].pc = "getEmailCode"
    /\ \E viaGet \in Paths(isRedisConnected) :
          LET call == inflight[r]
              storedCode == getEmailCode(viaGet, redisCodes, memCodes,
                                         call.user.email, now)
          IN  inflight' =
                 MapSet(inflight, r,
                        IF storedCode = "" THEN Thrown(call, 400, "CODE_EXPIRED")
                        ELSE IF storedCode # call.vcode
                        THEN Thrown(call, 400, "INVALID_CODE")
                        ELSE [call EXCEPT !.pc = "save",
                                          !.user = markVerified(call.user)])
    /\ UNCHANGED <<users, now, ticks, isConnected, redis, stores, statuses, resp, history>>

\* await user.save(), had it refused a record that is already verified
verifyEmailSaveOnlyIfPending(r) ==
    /\ r \in DOMAIN inflight
    /\ inflight[r].pc = "save"
    /\ IF users[inflight[r].user.email].emailVerified
       THEN /\ inflight' = MapSet(inflight, r,
                                  Thrown(inflight[r], 400, "EMAIL_ALREADY_VERIFIED"))
            /\ UNCHANGED users
       ELSE /\ users' = MapSet(users, inflight[r].user.email, inflight[r].user)
            /\ inflight' = MapSet(inflight, r,
                                  [inflight[r] EXCEPT !.pc = "deleteEmailCode"])
    /\ UNCHANGED <<now, ticks, isConnected, redis, stores, statuses, resp, history>>

\* await user.save()
verifyEmailSave(r) ==
    /\ r \in DOMAIN inflight
    /\ inflight[r].pc = "save"
    /\ users' = MapSet(users, inflight[r].user.email, inflight[r].user)
    /\ inflight' = MapSet(inflight, r, [inflight[r] EXCEPT !.pc = "deleteEmailCode"])
    /\ UNCHANGED <<now, ticks, isConnected, redis, stores, statuses, resp, history>>

\* await deleteEmailCode(user.email)
verifyEmailDeleteEmailCode(r) ==
    /\ r \in DOMAIN inflight
    /\ inflight[r].pc = "deleteEmailCode"
    /\ \E viaDel \in Paths(isRedisConnected) :
          LET codes == deleteEmailCode(viaDel, redisCodes, memCodes,
                                       inflight[r].user.email)
          IN  /\ redisCodes' = codes[1]
              /\ memCodes' = codes[2]
    /\ inflight' = MapSet(inflight, r, [inflight[r] EXCEPT !.pc = "setRefreshToken"])
    /\ UNCHANGED <<users, now, ticks, isConnected, redis, redisTokens, memTokens, statuses,
                   resp, history>>

\* the tokens are generated, await setRefreshToken(...), the pair is returned
verifyEmailSetRefreshToken(r) ==
    /\ r \in DOMAIN inflight
    /\ inflight[r].pc = "setRefreshToken"
    /\ \E viaSet \in Paths(isRedisConnected) :
          LET user == inflight[r].user
              access == generateAccessToken(user.id, user.email, now)
              refresh == generateRefreshToken(user.id, now)
              tokens == setRefreshToken(viaSet, redisTokens, memTokens, user.id,
                                        refresh, 7 * 24 * 60 * 60, now)
          IN  /\ redisTokens' = tokens[1]
              /\ memTokens' = tokens[2]
              /\ inflight' = MapSet(inflight, r,
                                    [inflight[r] EXCEPT !.pc = "done", !.status = 200,
                                                        !.accessToken = access,
                                                        !.refreshToken = refresh])
              /\ issued' = issued \cup {access, refresh}
              /\ verifiedWith' = MapSet(verifiedWith, user.email, inflight[r].vcode)
    /\ UNCHANGED <<users, now, ticks, isConnected, redis, redisCodes, memCodes, statuses,
                   resp, rotated, revoked>>

ConcurrentNext ==
    \/ RedisReady
    \/ RedisClosed
    \/ \E em \in RawEmails, password \in Passwords, mailOk \in BOOLEAN :
          register(em, password, mailOk)
    \/ \E r \in Requests, em \in LowerEmails, vcode \in generateVerificationCode :
          verifyEmailFindOne(r, em, vcode)
    \/ \E r \in Requests : verifyEmailGetEmailCode(r)
    \/ \E r \in Requests : verifyEmailSave(r)
    \/ \E r \in Requests : verifyEmailDeleteEmailCode(r)
    \/ \E r \in Requests : verifyEmailSetRefreshToken(r)

ConcurrentSpec == Init /\ [][ConcurrentNext]_vars

\* the request has passed the comparison of the stored code with its own
\* and has not returned yet
Compared(call) == call.pc \in {"save", "deleteEmailCode", "setRefreshToken"}

\* C20: verifyEmail reads the stored code and deletes it in separate store
\* calls, and nothing after the comparison looks at the code or at the
\* verified flag again: a request that has passed the comparison returns 200
\* with a token pair whatever another request for the same identity does
\* meanwhile, so two concurrent requests with the same valid code that both
\* pass the comparison before either deletes the code both succeed.
C20_BothConcurrentVerifiesSucceed ==
    [][ \A r \in DOMAIN inflight :
           (Compared(inflight[r]) /\ inflight'[r].pc = "done")
              => /\ inflight'[r].status = 200
                 /\ inflight'[r].accessToken # NoToken
                 /\ inflight'[r].refreshToken # NoToken
      ]_vars

\* two requests for one identity with the same code have both returned a pair
C20_Witness ==
    /\ DOMAIN inflight = Requests
    /\ \A r \in Requests :
          /\ inflight[r].pc = "done"
          /\ inflight[r].status = 200
          /\ inflight[r].refreshToken # NoToken
          /\ inflight[r].em = inflight[1].em
          /\ inflight[r].vcode = inflight[1].vcode


\* ------------------------------------------ refreshToken, request by request
\* AuthService.refreshToken as the steps between its awaits, for requests
\* that are in flight together, after an identity has registered and verified.
RefreshCall(pc, token, user, status, error, access, refresh) ==
    [pc |-> pc, token |-> token, user |-> user, status |-> status,
     error |-> error, accessToken |-> access, refreshToken |-> refresh]

\* const decoded = JWTService.verifyRefreshToken(refreshToken)
refreshTokenVerify(r, token) ==
    LET call == RefreshCall("getRefreshToken", token, NoUser, 0, "", NoToken, NoToken)
    IN  /\ r \notin DOMAIN inflight
        /\ inflight' = MapSet(inflight, r,
                              IF ~verifyRefreshToken(token, now)
                              THEN Thrown(call, 401, "REFRESH_ERROR")
                              ELSE call)
        /\ UNCHANGED <<users, now, ticks, isConnected, redis, stores, statuses, resp, history>>

\* const storedToken = await getRefreshToken(decoded.userId); the comparison
refreshTokenGetRefreshToken(r) ==
    /\ r \in DOMAIN inflight
    /\ inflight[r].pc = "getRefreshToken"
    /\ \E viaGet \in Paths(isRedisConnected) :
       \E storedToken \in getRefreshToken(viaGet, redisTokens, memTokens,
                                          inflight[r].token.userId, now) :
          inflight' = MapSet(inflight, r,
                             IF ~storedTokenMatches(storedToken, inflight[r].token)
                             THEN Thrown(inflight[r], 401, "INVALID_REFRESH_TOKEN")
                             ELSE [inflight[r] EXCEPT !.pc = "findById"])
    /\ UNCHANGED <<users, now, ticks, isConnected, redis, stores, statuses, resp, history>>

\* const user = await User.findById(decoded.userId); the check on it; the
\* new pair is generated
refreshTokenFindById(r) ==
    /\ r \in DOMAIN inflight
    /\ inflight[r].pc = "findById"
    /\ LET named == findById(users, inflight[r].token.userId) IN
       IF \A e \in named : ~users[e].emailVerified
       THEN inflight' = MapSet(inflight, r, Thrown(inflight[r], 401, "USER_NOT_FOUND"))
       ELSE \E e \in named :
               inflight' =
                  MapSet(inflight, r,
                         [inflight[r] EXCEPT
                             !.pc = "setRefreshToken",
                             !.user = users[e],
                             !.accessToken =
                                 generateAccessToken(users[e].id, users[e].email, now),
                             !.refreshToken = generateRefreshToken(users[e].id, now)])
    /\ UNCHANGED <<users, now, ticks, isConnected, redis, stores, statuses, resp, history>>

\* await setRefreshToken(...); the pair is returned
refreshTokenSetRefreshToken(r) ==
    /\ r \in DOMAIN inflight
    /\ inflight[r].pc = "setRefreshToken"
    /\ \E viaSet \in Paths(isRedisConnected) :
          LET call == inflight[r]
              tokens == setRefreshToken(viaSet, redisTokens, memTokens, call.user.id,
                                        call.refreshToken, 7 * 24 * 60 * 60, now)
          IN  /\ redisTokens' = tokens[1]
              /\ memTokens' = tokens[2]
              /\ inflight' = MapSet(inflight, r,
                                    [call EXCEPT !.pc = "done", !.status = 200])
              /\ issued' = issued \cup {call.accessToken, call.refreshToken}
              /\ rotated' = IF call.refreshToken # call.token
                            THEN rotated \cup {call.token} ELSE rotated
    /\ UNCHANGED <<users, now, ticks, isConnected, redis, redisCodes, memCodes, statuses,
                   resp, verifiedWith, revoked>>

RotationNext ==
    \/ \E d \in Elapses : Elapse(d)
    \/ RedisReady
    \/ RedisClosed
    \/ \E em \in LowerEmails : register(em, <<"A","b","c","d","e","f","1","!">>, TRUE)
    \/ \E em \in LowerEmails, vcode \in generateVerificationCode : verifyEmail(em, vcode)
    \/ \E r \in Requests, token \in {t \in issued : t.type = "refresh"} :
          refreshTokenVerify(r, token)
    \/ \E r \in Requests : refreshTokenGetRefreshToken(r)
    \/ \E r \in Requests : refreshTokenFindById(r)
    \/ \E r \in Requests : refreshTokenSetRefreshToken(r)

RotationSpec == Init /\ [][RotationNext]_vars

\* the tokens a refreshToken presented now would find stored for the identity
Accepted(rt, mt, userId, connected, t) ==
    UNION {getRefreshToken(viaGet, rt, mt, userId, t) : viaGet \in Paths(connected)}

\* C21: when two concurrent refreshToken calls present the same stored token
\* and both succeed, each installing a different new token, the later write
\* wins: once the second has completed, a subsequent refreshToken finds only
\* the token written last and rejects the token written first.
C21_LaterWriteWins ==
    [][ \A r \in DOMAIN inflight, o \in DOMAIN inflight :
           (/\ r # o
            /\ inflight[r].pc = "setRefreshToken"
            /\ inflight'[r].pc = "done"
            /\ inflight[o].pc = "done"
            /\ inflight[o].status = 200
            /\ inflight[o].token = inflight[r].token
            /\ inflight[o].refreshToken # inflight[r].refreshToken)
              => Accepted(redisTokens', memTokens', inflight[r].user.id,
                          isConnected', now') = {inflight'[r].refreshToken}
      ]_vars

\* two concurrent refreshToken calls with the same token have both succeeded
\* and have installed different tokens
BothRotationsSucceeded ==
    /\ DOMAIN inflight = Requests
    /\ \A r \in Requests : inflight[r].pc = "done" /\ inflight[r].status = 200
    /\ inflight[1].token = inflight[2].token
    /\ inflight[1].refreshToken # inflight[2].refreshToken


\* the credentials either store still holds for the identity at time t
Held(rt, mt, userId, t) ==
    redisSmembers(rt, userId, t)
       \cup (IF userId \in DOMAIN mt /\ mt[userId].expiresAt > t
             THEN {mt[userId].tokens[k] : k \in DOMAIN mt[userId].tokens}
             ELSE {})

\* C22: each successful rotation resets the lifetime of the identity's
\* credential set to the full TTL from that rotation, in the remote store and
\* in the fallback alike: the credential a rotation stored is still held
\* until 7 days after that rotation.
C22_RotationRestartsLifetime ==
    \A r \in DOMAIN inflight :
       (/\ inflight[r].pc = "done"
        /\ inflight[r].status = 200
        /\ now < inflight[r].refreshToken.iat + REFRESH_TOKEN_TTL)
          => inflight[r].refreshToken
                \in Held(redisTokens, memTokens, inflight[r].user.id, now)


\* ------------------------------------------------------- the health check
\* isRedisHealthy: false when not connected or when the ping fails, true
\* when the ping answers; thrown says whether an exception leaves the call
isRedisHealthyUncaught(connected, pingThrows) ==
    [thrown |-> connected /\ pingThrows, value |-> connected /\ ~pingThrows]

isRedisHealthy(connected, pingThrows) ==
    [thrown |-> FALSE, value |-> connected /\ ~pingThrows]

opIsRedisHealthy(pingThrows) ==
    LET health == isRedisHealthy(isRedisConnected, pingThrows)
    IN  /\ resp' = Outcome("isRedisHealthy", isRedisConnected, pingThrows,
                           IF health.thrown THEN "error"
                           ELSE IF isConnected THEN "remote" ELSE "none",
                           health.value, FALSE)
        /\ UNCHANGED <<users, now, ticks, statuses, inflight, isConnected, redis, stores,
                       history>>

HealthNext ==
    \/ FailoverNext
    \/ \E pingThrows \in BOOLEAN : opIsRedisHealthy(pingThrows)

HealthSpec == Init /\ [][HealthNext]_vars

HealthServed == resp'.op = "isRedisHealthy" /\ opIsRedisHealthy(resp'.threw)

\* C23: the health check only reports whether the remote store is reachable:
\* it leaves the fallback's codes, refresh credentials and statuses and the
\* connection flag unchanged whether the ping succeeds, fails, or the store
\* is disconnected, and it returns false instead of throwing.
C23_HealthCheckOnlyReports ==
    [][ HealthServed
           => /\ memCodes' = memCodes
              /\ memTokens' = memTokens
              /\ memStatuses' = memStatuses
              /\ isConnected' = isConnected
              /\ resp'.served # "error"
              /\ resp'.result = (isConnected /\ ~resp'.threw)
      ]_vars

C23_Witness ==
    /\ resp.op = "isRedisHealthy"
    /\ resp.connected
    /\ resp.threw
    /\ resp.result = FALSE
    /\ memCodes # EmptyMap
    /\ memTokens # EmptyMap
    /\ memStatuses # EmptyMap


\* ------------------------------------------------------ presence and logout
\* setUserStatus / getUserStatus beside logout and the writing of refresh
\* credentials, under connectivity changes and the passage of time.
PresenceNext ==
    \/ \E d \in Deltas : Tick(d)
    \/ RedisReady
    \/ RedisClosed
    \/ \E userId \in UserIds, status \in StatusValues :
          opSetUserStatus(userId, status, FALSE)
    \/ \E userId \in UserIds : opGetUserStatus(userId, FALSE)
    \/ \E userId \in UserIds, t \in {0, VERIFICATION_CODE_EXPIRY} :
          opSetRefreshToken(userId, generateRefreshToken(userId, t), FALSE)
    \/ \E userId \in UserIds : opGetRefreshToken(userId, FALSE)
    \/ \E userId \in UserIds : logout(userId)

PresenceSpec == Init /\ [][PresenceNext]_vars

LogoutServed == resp'.op = "logout" /\ logout(resp'.userId)

\* C24: logout leaves the presence record unchanged: it touches only the
\* refresh-credential key, so an identity reported online before logout is
\* still reported online by getUserStatus after it.
C24_LogoutKeepsPresence ==
    [][ LogoutServed
           => /\ redisStatuses' = redisStatuses
              /\ memStatuses' = memStatuses
              /\ \A userId \in UserIds, viaGet \in Paths(isRedisConnected') :
                    getUserStatus(viaGet, redisStatuses', memStatuses', userId, now')
                       = getUserStatus(viaGet, redisStatuses, memStatuses, userId, now)
      ]_vars

C24_Witness ==
    /\ resp.op = "logout"
    /\ isConnected
    /\ \A viaGet \in Paths(isRedisConnected) :
          /\ getUserStatus(viaGet, redisStatuses, memStatuses, resp.userId, now)
                = "online"
          /\ getRefreshToken(viaGet, redisTokens, memTokens, resp.userId, now)
                = {NoToken}


\* ------------------------------------------------ register and its policy
\* register with passwords that violate each rule of the policy alone, all
\* of them, or none, beside resendVerification and connectivity changes.
PolicyPasswords ==
    Passwords \cup { <<"A","b","c","d","e","f","g","1">>,
                     <<"A","b","c","d","e","f","g","!">>,
                     <<"a","1","!">> }

LowerChars == {"a","b","c","d","e","f","g","h","i","j","k","l","m",
               "n","o","p","q","r","s","t","u","v","w","x","y","z"}

UpperChars == {"A","B","C","D","E","F","G","H","I","J","K","L","M",
               "N","O","P","Q","R","S","T","U","V","W","X","Y","Z"}

\* registerSchema.validate on the password (abortEarly: false): the rules
\* of the schema it breaks
registerSchema(password) ==
    LET has(chars) == \E i \in 1..Len(password) : password[i] \in chars IN
    (IF Len(password) < 8 THEN {"string.min"} ELSE {})
    \cup (IF Len(password) > 128 THEN {"string.max"} ELSE {})
    \cup (IF has(LowerChars) /\ has(UpperChars) /\ has(DigitChars) /\ has(SpecialChars)
          THEN {} ELSE {"string.pattern.base"})

\* POST /api/auth/register: the body is validated, then AuthService.register
postRegister(em, password, mailOk) ==
    IF registerSchema(password) # {}
    THEN /\ resp' = Failure("POST /register", em, "", NoToken, 400, "VALIDATION_ERROR")
         /\ UNCHANGED <<users, now, ticks, statuses, inflight, isConnected, redis, stores,
                        history>>
    ELSE register(em, password, mailOk)

RegisterNext ==
    \/ RedisReady
    \/ RedisClosed
    \/ \E em \in RawEmails, password \in PolicyPasswords, mailOk \in BOOLEAN :
          register(em, password, mailOk)
    \/ \E em \in RawEmails, password \in PolicyPasswords, mailOk \in BOOLEAN :
          postRegister(em, password, mailOk)
    \/ \E em \in RawEmails, mailOk \in BOOLEAN : resendVerification(em, mailOk)

RegisterSpec == Init /\ [][RegisterNext]_vars

\* the rules of the strength policy a password violates
ViolatedRules(password) ==
    {rule \in {"length", "digit", "special"} :
        \/ rule = "length" /\ Len(password) < 8
        \/ rule = "digit" /\ \A i \in 1..Len(password) : password[i] \notin DigitChars
        \/ rule = "special"
              /\ \A i \in 1..Len(password) : password[i] \notin SpecialChars}

deleteMany(email) ==
    /\ email \in DOMAIN users
    /\ users' = MapDel(users, email)
    /\ UNCHANGED <<now, ticks, statuses, inflight, isConnected, redis, stores, resp, history>>

RemovalNext ==
    \/ \E d \in Elapses : Elapse(d)
    \/ RedisReady
    \/ RedisClosed
    \/ \E em \in LowerEmails :
          issued = {} /\ register(em, <<"A","b","c","d","e","f","1","!">>, TRUE)
    \/ \E em \in RawEmails, vcode \in SubmitCodes : verifyEmail(em, vcode)
    \/ \E token \in {t \in issued : t.type = "refresh"} : refreshToken(token)
    \/ \E email \in LowerEmails : deleteMany(email)

RemovalSpec == Init /\ [][RemovalNext]_vars

\* the token is in the credential set of every store that can serve the call
StoredWhereServed(token) ==
    \A viaGet \in Paths(isRedisConnected) :
       token \in (IF viaGet THEN RemoteTokens(redisTokens, token.userId, now)
                  ELSE FallbackTokens(memTokens, token.userId, now))

\* once the stored-token comparison has passed, a missing or unverified
\* identity is answered with USER_NOT_FOUND and nothing is issued or written
RejectedAfterComparison ==
    [][ (/\ RefreshTokenServed
         /\ ~Verified(resp'.token.userId)
         /\ resp'.error \notin {"REFRESH_ERROR", "INVALID_REFRESH_TOKEN"})
           => /\ resp'.status = 401
              /\ resp'.error = "USER_NOT_FOUND"
              /\ resp'.refreshToken = NoToken
              /\ issued' = issued
              /\ stores' = stores
      ]_vars

RemovedIdentityRejected ==
    /\ resp.op = "refreshToken"
    /\ resp.error = "USER_NOT_FOUND"
    /\ findById(users, resp.token.userId) = {}
    /\ StoredWhereServed(resp.token)

\* C26: refreshToken re-loads the identity on every call and, when the
\* identity named by a stored, valid refresh token no longer exists or is not
\* verified, fails with USER_NOT_FOUND, issues nothing and leaves the stored
\* credential sets unchanged.
C26_MissingIdentityRejected ==
    [][ (/\ RefreshTokenServed
         /\ verifyRefreshToken(resp'.token, now)
         /\ StoredWhereServed(resp'.token)
         /\ ~Verified(resp'.token.userId))
           => /\ resp'.status = 401
              /\ resp'.error = "USER_NOT_FOUND"
              /\ resp'.accessToken = NoToken
              /\ resp'.refreshToken = NoToken
              /\ issued' = issued
              /\ stores' = stores
      ]_vars


\* the codes getEmailCode can return for the email on the paths that can
\* serve the call
CodesRead(email) ==
    {getEmailCode(viaGet, redisCodes, memCodes, email, now) :
        viaGet \in Paths(isRedisConnected)}

\* C27: verifyEmail evaluates its checks in the order USER_NOT_FOUND,
\* EMAIL_ALREADY_VERIFIED, CODE_EXPIRED, INVALID_CODE: for an unknown email
\* the result is USER_NOT_FOUND whatever the code stores hold, and for a
\* pending identity with no stored or only an expired code every submitted
\* code yields CODE_EXPIRED, never INVALID_CODE.
C27_ChecksInFixedOrder ==
    [][ VerifyEmailServed
           => LET email == toLowerCase(resp'.email) IN
              /\ email \notin DOMAIN users => resp'.error = "USER_NOT_FOUND"
              /\ (email \in DOMAIN users /\ users[email].emailVerified)
                    => resp'.error = "EMAIL_ALREADY_VERIFIED"
              /\ (/\ email \in DOMAIN users
                  /\ ~users[email].emailVerified
                  /\ CodesRead(email) = {""})
                    => resp'.error = "CODE_EXPIRED"
              /\ (/\ email \in DOMAIN users
                  /\ ~users[email].emailVerified
                  /\ "" \notin CodesRead(email)
                  /\ resp'.vcode \notin CodesRead(email))
                    => resp'.error = "INVALID_CODE"
      ]_vars

\* an unknown email is answered with USER_NOT_FOUND while a code is stored
\* under it
UnknownEmailWithStoredCode ==
    /\ resp.op = "verifyEmail"
    /\ resp.error = "USER_NOT_FOUND"
    /\ CodesRead(toLowerCase(resp.email)) = {resp.vcode}

C27_Witness ==
    /\ resp.op = "verifyEmail"
    /\ resp.error = "CODE_EXPIRED"
    /\ toLowerCase(resp.email) \in DOMAIN users
    /\ ~users[toLowerCase(resp.email)].emailVerified
    /\ now >= VERIFICATION_CODE_EXPIRY
    /\ ~isConnected
    /\ resp.vcode \in generateVerificationCode


\* C28: a register request whose email already has a record and whose
\* password also violates the strength policy is answered, on the whole
\* request path (route validation, then AuthService.register), with
\* EMAIL_ALREADY_EXISTS (409).
C28_ExistingEmailBeforePolicy ==
    [][ \A password \in PolicyPasswords :
           (/\ toLowerCase(resp'.email) \in DOMAIN users
            /\ ViolatedRules(password) # {}
            /\ postRegister(resp'.email, password, TRUE))
              => (resp'.status = 409 /\ resp'.error = "EMAIL_ALREADY_EXISTS")
      ]_vars

\* in AuthService.register alone the existing-email check comes first
ServiceChecksEmailFirst ==
    [][ \A password \in PolicyPasswords :
           (/\ resp'.op = "register"
            /\ toLowerCase(resp'.email) \in DOMAIN users
            /\ register(resp'.email, password, TRUE))
              => (resp'.status = 409 /\ resp'.error = "EMAIL_ALREADY_EXISTS")
      ]_vars


\* ------------------------------------------------- the verification code
\* Math.floor(100000 + Math.random() * 900000).toString() as a function of
\* the random number, and the pattern the verify-email route puts on the
\* submitted code.  Math.random() is random / RandomDenominator, in [0, 1);
\* the denominator is a multiple of 900000, so that the floor of
\* random / RandomDenominator * 900000 is random \div (RandomDenominator / 900000).
RandomDenominator == 1800000

\* the random numbers explored: the lowest, the highest and some in between
RandomNumerators ==
    (0..15) \cup (899992..900007) \cup ((RandomDenominator - 16)..(RandomDenominator - 1))

\* Number.prototype.toString, character by character
RECURSIVE Digits(_)
Digits(n) ==
    IF n < 10 THEN <<DigitString[n + 1]>>
    ELSE Append(Digits(n \div 10), DigitString[(n % 10) + 1])

RECURSIVE Concat(_)
Concat(chars) == IF chars = <<>> THEN "" ELSE Head(chars) \o Concat(Tail(chars))

\* the number under Math.floor
verificationCodeNumberUnpadded(random) ==
    (random * 10) \div (RandomDenominator \div 100000)

verificationCodeNumber(random) == 100000 + random \div (RandomDenominator \div 900000)

\* verifyEmailSchema.verificationCode: /^\d{6}$/
verificationCodePattern(chars) ==
    Len(chars) = 6 /\ \A i \in 1..Len(chars) : chars[i] \in DigitChars

CodeInit ==
    /\ users = EmptyMap
    /\ now = 0
    /\ ticks = 0
    /\ isConnected = FALSE
    /\ redis = Client
    /\ redisCodes = EmptyMap
    /\ redisTokens = EmptyMap
    /\ memCodes = EmptyMap
    /\ memTokens = EmptyMap
    /\ redisStatuses = EmptyMap
    /\ memStatuses = EmptyMap
    /\ inflight = EmptyMap
    /\ issued = {}
    /\ verifiedWith = EmptyMap
    /\ rotated = {}
    /\ revoked = {}
    /\ resp \in {[op |-> "Math.random", random |-> random] : random \in RandomNumerators}

\* const verificationCode = Math.floor(100000 + Math.random() * 900000).toString()
generateCode ==
    /\ resp.op = "Math.random"
    /\ resp' = [op |-> "generateVerificationCode", random |-> resp.random,
                number |-> verificationCodeNumber(resp.random),
                chars |-> Digits(verificationCodeNumber(resp.random)),
                code |-> NumToString(verificationCodeNumber(resp.random))]
    /\ UNCHANGED <<users, now, ticks, statuses, inflight, isConnected, redis, stores, history>>

\* verifyEmailSchema.validate on the code just generated
validateCode ==
    /\ resp.op = "generateVerificationCode"
    /\ resp' = [op |-> "verifyEmailSchema", random |-> resp.random,
                number |-> resp.number, chars |-> resp.chars, code |-> resp.code,
                valid |-> verificationCodePattern(resp.chars)]
    /\ UNCHANGED <<users, now, ticks, statuses, inflight, isConnected, redis, stores, history>>

CodeNext == generateCode \/ validateCode

CodeSpec == CodeInit /\ [][CodeNext]_vars

\* C29: every verification code register and resendVerification produce is
\* a string of exactly six decimal digits, the decimal form of an integer in
\* 100000..999999, so it passes the verify-email validation pattern.
C29_CodeIsSixDigits ==
    /\ resp.op \in {"generateVerificationCode", "verifyEmailSchema"}
          => /\ resp.number \in 100000..999999
             /\ Len(resp.chars) = 6
             /\ \A i \in 1..Len(resp.chars) : resp.chars[i] \in DigitChars
             /\ resp.code = Concat(resp.chars)
    /\ resp.op = "verifyEmailSchema" => resp.valid
    /\ \A n \in CodeNumbers :
          /\ n \in 100000..999999
          /\ verificationCodePattern(Digits(n))
          /\ Concat(Digits(n)) \in generateVerificationCode

C29_Witness ==
    /\ resp.op = "verifyEmailSchema"
    /\ resp.random = RandomDenominator - 1
    /\ resp.code = "999999"
    /\ resp.valid


\* ------------------------------------------------------- chained rotation
\* the refresh tokens issued last to the identity
LatestIssued(userId) ==
    {t \in issued :
        /\ t.type = "refresh"
        /\ t.userId = userId
        /\ \A o \in issued : (o.type = "refresh" /\ o.userId = userId) => o.iat <= t.iat}

\* C30: rotation can be chained: with no logout and no expiry in between,
\* the refresh token issued most recently to a verified identity, still held
\* by every store that can serve the call, is accepted by refreshToken, with
\* the remote store reachable and in fallback mode alike.
C30_LatestTokenAccepted ==
    [][ (/\ RefreshTokenServed
         /\ resp'.token \in LatestIssued(resp'.token.userId)
         /\ verifyRefreshToken(resp'.token, now)
         /\ Verified(resp'.token.userId)
         /\ StoredWhereServed(resp'.token))
           => resp'.status = 200
      ]_vars

\* a token returned by a rotation is presented and rejected
ChainBroken ==
    /\ resp.op = "refreshToken"
    /\ resp.error = "INVALID_REFRESH_TOKEN"
    /\ resp.token \in LatestIssued(resp.token.userId)
    /\ resp.token \notin rotated
    /\ rotated # {}
    /\ revoked = {}


\* ---------------------------------------------- register, request by request
\* AuthService.register as the steps between its awaits, for requests that
\* are in flight together.  created says whether this request's save wrote
\* the record; threwAt names the step whose error ended the request.
RegisterCall(pc, em, password, created, status, error, threwAt) ==
    [pc |-> pc, em |-> em, password |-> password, created |-> created,
     status |-> status, error |-> error, threwAt |-> threwAt]

Failed(call, status, error) ==
    [call EXCEPT !.pc = "done", !.status = status, !.error = error, !.threwAt = call.pc]

\* const existingUser = await User.findOne(...); validatePassword; the
\* request then awaits bcrypt.hash
registerFindOne(r, em, password) ==
    LET call == RegisterCall("findOne", em, password, FALSE, 0, "", "") IN
    /\ r \notin DOMAIN inflight
    /\ inflight' =
          MapSet(inflight, r,
                 IF toLowerCase(em) \in DOMAIN users
                 THEN Failed(call, 409, "EMAIL_ALREADY_EXISTS")
                 ELSE IF validatePassword(password) # {}
                 THEN Failed(call, 400, "INVALID_PASSWORD")
                 ELSE [call EXCEPT !.pc = "save"])
    /\ UNCHANGED <<users, now, ticks, isConnected, redis, stores, statuses, resp, history>>

\* await user.save(): the unique index on email rejects a second record
\* with MongoServerError 11000; here the catch does not recognise it
registerSaveUnmapped(r) ==
    /\ r \in DOMAIN inflight
    /\ inflight[r].pc = "save"
    /\ LET email == toLowerCase(inflight[r].em) IN
       IF email \in DOMAIN users
       THEN /\ inflight' = MapSet(inflight, r,
                                  Failed(inflight[r], 500, "REGISTRATION_ERROR"))
            /\ UNCHANGED users
       ELSE /\ users' = MapSet(users, email, NewUser(email, inflight[r].password))
            /\ inflight' = MapSet(inflight, r,
                                  [inflight[r] EXCEPT !.pc = "setEmailCode",
                                                      !.created = TRUE])
    /\ UNCHANGED <<now, ticks, isConnected, redis, stores, statuses, resp, history>>

\* await user.save(): the unique index on email rejects a second record
\* with MongoServerError 11000, which the catch turns into 409
registerSave(r) ==
    /\ r \in DOMAIN inflight
    /\ inflight[r].pc = "save"
    /\ LET email == toLowerCase(inflight[r].em) IN
       IF email \in DOMAIN users
       THEN /\ inflight' = MapSet(inflight, r,
                                  Failed(inflight[r], 409, "EMAIL_ALREADY_EXISTS"))
            /\ UNCHANGED users
       ELSE /\ users' = MapSet(users, email, NewUser(email, inflight[r].password))
            /\ inflight' = MapSet(inflight, r,
                                  [inflight[r] EXCEPT !.pc = "setEmailCode",
                                                      !.created = TRUE])
    /\ UNCHANGED <<now, ticks, isConnected, redis, stores, statuses, resp, history>>

\* await setEmailCode(user.email, verificationCode, VERIFICATION_CODE_EXPIRY)
registerSetEmailCode(r) ==
    /\ r \in DOMAIN inflight
    /\ inflight[r].pc = "setEmailCode"
    /\ \E code \in generateVerificationCode, viaSet \in Paths(isRedisConnected) :
          LET after == setEmailCode(viaSet, redisCodes, memCodes,
                                    toLowerCase(inflight[r].em), code,
                                    VERIFICATION_CODE_EXPIRY, now)
          IN  /\ redisCodes' = after[1]
              /\ memCodes' = after[2]
    /\ inflight' = MapSet(inflight, r, [inflight[r] EXCEPT !.pc = "sendVerificationEmail"])
    /\ UNCHANGED <<users, now, ticks, isConnected, redis, redisTokens, memTokens, statuses,
                   resp, history>>

\* await emailService.sendVerificationEmail(...); the result is returned
registerSendVerificationEmail(r, mailOk) ==
    /\ r \in DOMAIN inflight
    /\ inflight[r].pc = "sendVerificationEmail"
    /\ inflight' = MapSet(inflight, r,
                          IF mailOk
                          THEN [inflight[r] EXCEPT !.pc = "done", !.status = 201]
                          ELSE Failed(inflight[r], 500, "REGISTRATION_ERROR"))
    /\ UNCHANGED <<users, now, ticks, isConnected, redis, stores, statuses, resp, history>>

RegisterRaceNext ==
    \/ RedisReady
    \/ RedisClosed
    \/ \E r \in Requests, em \in RawEmails, password \in Passwords :
          registerFindOne(r, em, password)
    \/ \E r \in Requests : registerSave(r)
    \/ \E r \in Requests : registerSetEmailCode(r)
    \/ \E r \in Requests, mailOk \in BOOLEAN : registerSendVerificationEmail(r, mailOk)

RegisterRaceSpec == Init /\ [][RegisterRaceNext]_vars

RevocationRaceNext ==
    \/ \E d \in Elapses : Elapse(d)
    \/ RedisReady
    \/ RedisClosed
    \/ \E em \in LowerEmails : register(em, <<"A","b","c","d","e","f","1","!">>, TRUE)
    \/ \E em \in LowerEmails, vcode \in generateVerificationCode : verifyEmail(em, vcode)
    \/ \E r \in Requests, token \in {t \in issued : t.type = "refresh"} :
          revoked = {} /\ refreshTokenVerify(r, token)
    \/ \E r \in Requests : refreshTokenGetRefreshToken(r)
    \/ \E r \in Requests : refreshTokenFindById(r)
    \/ \E r \in Requests : refreshTokenSetRefreshToken(r)
    \/ \E userId \in UserIds : logout(userId)

RevocationRaceSpec == Init /\ [][RevocationRaceNext]_vars

\* C32: revocation is final under concurrency: when a logout for an identity
\* ran while a refreshToken call for it was in flight, then once both have
\* completed no refresh credential is stored for the identity.
C32_RevocationFinalUnderConcurrency ==
    [][ \A r \in DOMAIN inflight :
           (/\ inflight[r].pc = "setRefreshToken"
            /\ inflight'[r].pc = "done"
            /\ inflight[r].token \in revoked)
              => Held(redisTokens', memTokens', inflight[r].user.id, now') = {}
      ]_vars

\* the token returned by the refreshToken call that was in flight during the
\* logout is the stored credential afterwards
ReturnedTokenSurvivesLogout ==
    \E r \in DOMAIN inflight :
       /\ inflight[r].pc = "done"
       /\ inflight[r].status = 200
       /\ inflight[r].token \in revoked
       /\ ~isConnected
       /\ redisTokens = EmptyMap
       /\ Accepted(redisTokens, memTokens, inflight[r].user.id, isConnected, now)
             = {inflight[r].refreshToken}


\* ------------------------------------ verification codes across an outage
\* setEmailCode, getEmailCode and deleteEmailCode called directly while the
\* remote store comes and goes and time passes.  resp holds the last call:
\* its key, the value written or returned, the time, and whether the remote
\* command threw.
CodeCall(op, email, code, at, threw) ==
    [op |-> op, email |-> email, code |-> code, at |-> at, threw |-> threw]

putEmailCode(email, code, commandThrows) ==
    LET after == setEmailCode(Served(isRedisConnected, commandThrows) = "remote",
                              redisCodes, memCodes, email, code,
                              VERIFICATION_CODE_EXPIRY, now)
    IN  /\ redisCodes' = after[1]
        /\ memCodes' = after[2]
        /\ resp' = CodeCall("setEmailCode", email, code, now, commandThrows)
        /\ UNCHANGED <<users, now, ticks, statuses, inflight, isConnected, redis,
                       redisTokens, memTokens, history>>

readEmailCode(email, commandThrows) ==
    /\ resp' = CodeCall("getEmailCode", email,
                        getEmailCode(Served(isRedisConnected, commandThrows) = "remote",
                                     redisCodes, memCodes, email, now),
                        now, commandThrows)
    /\ UNCHANGED <<users, now, ticks, statuses, inflight, isConnected, redis, stores, history>>

dropEmailCode(email, commandThrows) ==
    LET after == deleteEmailCode(Served(isRedisConnected, commandThrows) = "remote",
                                 redisCodes, memCodes, email)
    IN  /\ redisCodes' = after[1]
        /\ memCodes' = after[2]
        /\ resp' = CodeCall("deleteEmailCode", email, "", now, commandThrows)
        /\ UNCHANGED <<users, now, ticks, statuses, inflight, isConnected, redis,
                       redisTokens, memTokens, history>>

OutageNext ==
    \/ \E d \in Deltas : Tick(d)
    \/ RedisReady
    \/ RedisClosed
    \/ \E email \in LowerEmails, code \in generateVerificationCode,
          commandThrows \in BOOLEAN : putEmailCode(email, code, commandThrows)
    \/ \E email \in LowerEmails, commandThrows \in BOOLEAN :
          readEmailCode(email, commandThrows)
    \/ \E email \in LowerEmails, commandThrows \in BOOLEAN :
          dropEmailCode(email, commandThrows)

OutageSpec == Init /\ [][OutageNext]_vars

\* a get, with no remote command failing, that directly follows a set of the
\* same key, with only connectivity changes and time in between
ReadAfterWrite ==
    /\ resp.op = "setEmailCode"
    /\ ~resp.threw
    /\ resp'.op = "getEmailCode"
    /\ ~resp'.threw
    /\ resp'.email = resp.email
    /\ readEmailCode(resp'.email, FALSE)

\* C33: for each key the adapter's get returns the value of the most recent
\* set that has not since been deleted or expired, under any sequence of
\* connectivity changes between the two: a code written during an outage is
\* returned after reconnection, and a code overwritten during an outage is
\* not returned again.
C33_GetReturnsLatestSet ==
    [][ (ReadAfterWrite /\ now < resp.at + VERIFICATION_CODE_EXPIRY)
           => resp'.code = resp.code
      ]_vars

\* with the same store serving both calls the get does return the set
SameStoreReadsWrite ==
    [][ (/\ ReadAfterWrite
         /\ now < resp.at + VERIFICATION_CODE_EXPIRY
         /\ \/ (isConnected /\ emailCodeKey(resp.email) \in DOMAIN redisCodes
                            /\ redisCodes[emailCodeKey(resp.email)].code = resp.code
                            /\ redisCodes[emailCodeKey(resp.email)].expiresAt
                                  = resp.at + VERIFICATION_CODE_EXPIRY)
            \/ (~isConnected /\ resp.email \in DOMAIN memCodes
                             /\ memCodes[resp.email].code = resp.code
                             /\ memCodes[resp.email].expiresAt
                                   = resp.at + VERIFICATION_CODE_EXPIRY))
           => resp'.code = resp.code
      ]_vars

\* a code that a later set replaced is returned by a get
OverwrittenCodeReturned ==
    /\ resp.op = "getEmailCode"
    /\ ~resp.threw
    /\ isConnected
    /\ resp.code # ""
    /\ resp.email \in DOMAIN memCodes
    /\ memCodes[resp.email].code # resp.code
    /\ memCodes[resp.email].expiresAt - VERIFICATION_CODE_EXPIRY
          >= redisCodes[emailCodeKey(resp.email)].expiresAt - VERIFICATION_CODE_EXPIRY


\* ------------------------------------ revocation across connectivity changes
\* C34: revocation survives connectivity changes: after a logout, served by
\* whichever store, no refresh token issued to the identity before it is
\* still held by either store, so none is accepted in any later state.
C34_LogoutRemovesEverywhere ==
    [][ (resp'.op = "logout" /\ logout(resp'.userId))
           => Held(redisTokens', memTokens', resp'.userId, now') = {}
      ]_vars

\* a token revoked by logout is accepted by a later refreshToken
RevokedTokenAccepted ==
    /\ resp.op = "refreshToken"
    /\ resp.status = 200
    /\ resp.token \in revoked


\* ------------------------------------------------------ regaining a session
\* The service with clients that keep calling: each exposed operation that
\* stays possible is called again and again (the router serves every request
\* it receives).
SessionSpec ==
    /\ Init
    /\ [][Next]_vars
    /\ SF_vars(\E em \in RawEmails, password \in Passwords, mailOk \in BOOLEAN :
                  register(em, password, mailOk))
    /\ SF_vars(\E em \in RawEmails, mailOk \in BOOLEAN : resendVerification(em, mailOk))
    /\ SF_vars(\E em \in RawEmails, vcode \in SubmitCodes : verifyEmail(em, vcode))
    /\ SF_vars(\E token \in Presentable : refreshToken(token))
    /\ SF_vars(\E userId \in UserIds : logout(userId))

\* the identity is verified and neither store holds a credential for it
SessionLost(userId) ==
    Verified(userId) /\ Held(redisTokens, memTokens, userId, now) = {}

\* C35: a verified identity can always regain a session: whenever an
\* identity is verified and holds no stored refresh credential, the exposed
\* operations lead to a new pair being returned, and so to a credential
\* stored for it.
C35_VerifiedRegainsSession ==
    \A userId \in UserIds :
       SessionLost(userId) ~> (Held(redisTokens, memTokens, userId, now) # {})

\* from a state in which the session is lost no operation stores a
\* credential or returns a pair: the state is never left
SessionLostForGood ==
    [][ \A userId \in UserIds :
           SessionLost(userId)
              => /\ Held(redisTokens', memTokens', userId, now') = {}
                 /\ Verified(userId)'
                 /\ issued' = issued
      ]_vars

SessionLostAfterLogout ==
    /\ resp.op = "logout"
    /\ SessionLost(resp.userId)


\* ------------------------------------------------- from pending to verified
\* The service with a client that follows the recovery path: it keeps asking
\* for a new code while the identity is pending, and keeps submitting a code
\* that is accepted whenever one is.
Pending(email) == email \in DOMAIN users /\ ~users[email].emailVerified

RecoverySpec ==
    /\ Init
    /\ [][Next]_vars
    /\ SF_vars(\E em \in RawEmails, mailOk \in BOOLEAN : resendVerification(em, mailOk))
    /\ SF_vars(\E em \in RawEmails, vcode \in SubmitCodes :
                  verifyEmail(em, vcode) /\ resp'.status = 200)

StartServer == 0

\* the module state a connectRedis call leaves and whether it threw:
\*   if (isConnected && redis) return redis
\*   try { redis = new Redis(...); redis.on('ready', ...); await redis.ping();
\*         return redis }
\*   catch (error) { isConnected = false; redis = null; throw error }
\* the ping is answered once the client is ready, so 'ready' has set the flag
connectRedis(flag, client, reachable) ==
    IF flag /\ client # NoClient
    THEN [isConnected |-> flag, redis |-> client, thrown |-> FALSE]
    ELSE IF reachable
    THEN [isConnected |-> TRUE, redis |-> Client, thrown |-> FALSE]
    ELSE [isConnected |-> FALSE, redis |-> NoClient, thrown |-> TRUE]

\* initializeRedis without its catch
initializeRedisUncaught(reachable) ==
    LET first == connectRedis(isConnected, redis, reachable)
        second == IF first.thrown THEN first
                  ELSE connectRedis(first.isConnected, first.redis, reachable)
    IN  /\ StartServer \in DOMAIN inflight
        /\ inflight[StartServer].pc = "initializeRedis"
        /\ isConnected' = second.isConnected
        /\ redis' = second.redis
        /\ resp' = [op |-> "initializeRedis", reachable |-> reachable,
                    threw |-> second.thrown, result |-> second.redis]
        /\ inflight' = [inflight EXCEPT ![StartServer].pc =
                           IF second.thrown THEN "exit" ELSE "listen"]
        /\ UNCHANGED <<users, now, ticks, statuses, stores, history>>

\* try { await connectRedis(); setupGracefulShutdown();
\*       return await connectRedis() }
\* catch (error) { return null }
initializeRedis(reachable) ==
    LET first == connectRedis(isConnected, redis, reachable)
        second == IF first.thrown THEN first
                  ELSE connectRedis(first.isConnected, first.redis, reachable)
    IN  /\ StartServer \in DOMAIN inflight
        /\ inflight[StartServer].pc = "initializeRedis"
        /\ isConnected' = second.isConnected
        /\ redis' = second.redis
        /\ resp' = [op |-> "initializeRedis", reachable |-> reachable,
                    threw |-> FALSE,
                    result |-> IF second.thrown THEN NoClient ELSE second.redis]
        /\ inflight' = [inflight EXCEPT ![StartServer].pc = "listen"]
        /\ UNCHANGED <<users, now, ticks, statuses, stores, history>>

\* setupRedisGracefulShutdown(); app.listen(PORT, ...): requests are served
listen ==
    /\ StartServer \in DOMAIN inflight
    /\ inflight[StartServer].pc = "listen"
    /\ inflight' = EmptyMap
    /\ UNCHANGED <<users, now, ticks, isConnected, redis, statuses, stores, resp,
                   history>>

Listening == StartServer \notin DOMAIN inflight

StartupInit ==
    /\ users = EmptyMap
    /\ now = 0
    /\ ticks = 0
    /\ isConnected = FALSE
    /\ redis = NoClient
    /\ redisCodes = EmptyMap
    /\ redisTokens = EmptyMap
    /\ memCodes = EmptyMap
    /\ memTokens = EmptyMap
    /\ redisStatuses = EmptyMap
    /\ memStatuses = EmptyMap
    /\ inflight = (StartServer :> [pc |-> "initializeRedis"])
    /\ resp = Failure("none", "", "", NoToken, 0, "")
    /\ issued = {}
    /\ verifiedWith = EmptyMap
    /\ rotated = {}
    /\ revoked = {}

\* the events of the client created by connectRedis arrive whether or not the
\* module still holds it
StartupNext ==
    \/ \E reachable \in BOOLEAN : initializeRedis(reachable)
    \/ listen
    \/ Listening /\ FailoverNext

StartupSpec == StartupInit /\ [][StartupNext]_vars

AdapterOps ==
    {"setEmailCode", "getEmailCode", "deleteEmailCode", "setRefreshToken",
     "getRefreshToken", "invalidateAllRefreshTokens", "setUserStatus",
     "getUserStatus"}

Persistent == 2147483647

\* SADD key member: a key that does not exist is created without an expiry,
\* an existing key keeps the expiry it has
redisSadd(rt, key, member, t) ==
    IF key \in DOMAIN rt /\ rt[key].expiresAt > t
    THEN MapSet(rt, key, [rt[key] EXCEPT !.tokens = @ \cup {member}])
    ELSE MapSet(rt, key, [tokens |-> {member}, expiresAt |-> Persistent])

\* EXPIRE key ttl
redisExpire(rt, key, ttl, t) ==
    IF key \in DOMAIN rt /\ rt[key].expiresAt > t
    THEN MapSet(rt, key, [rt[key] EXCEPT !.expiresAt = t + ttl])
    ELSE rt

\* setRefreshToken up to the end of  await redis.sadd(key, token):
\*   if (isRedisConnected()) { await redis.sadd(key, token); ...
\* and, when disconnected or when SADD throws, the fallback's write
setRefreshTokenSadd(r, userId, token, commandThrows) ==
    /\ r \notin DOMAIN inflight
    /\ IF isRedisConnected /\ ~commandThrows
       THEN /\ redisTokens' = redisSadd(redisTokens, userId, token, now)
            /\ inflight' = MapSet(inflight, r, [pc |-> "expire", userId |-> userId,
                                                token |-> token])
            /\ UNCHANGED <<memTokens, resp>>
       ELSE /\ memTokens' = memSetRefreshToken(memTokens, userId, token,
                                               REFRESH_TOKEN_TTL, now)
            /\ resp' = Outcome("setRefreshToken", isRedisConnected, commandThrows,
                               "fallback", TRUE, TRUE)
            /\ UNCHANGED <<redisTokens, inflight>>
    /\ UNCHANGED <<users, now, ticks, statuses, isConnected, redis, redisCodes,
                   memCodes, history>>

\*   await redis.expire(key, expirationTime); return true
\* } catch (error) { return memoryFallback.setRefreshToken(...) }
setRefreshTokenExpire(r, commandThrows) ==
    /\ r \in DOMAIN inflight
    /\ inflight[r].pc = "expire"
    /\ IF ~commandThrows
       THEN /\ redisTokens' = redisExpire(redisTokens,
                                          inflight[r].userId,
                                          REFRESH_TOKEN_TTL, now)
            /\ resp' = Outcome("setRefreshToken", TRUE, FALSE, "remote", TRUE, TRUE)
            /\ UNCHANGED memTokens
       ELSE /\ memTokens' = memSetRefreshToken(memTokens, inflight[r].userId,
                                               inflight[r].token, REFRESH_TOKEN_TTL,
                                               now)
            /\ resp' = Outcome("setRefreshToken", TRUE, TRUE, "fallback", TRUE, TRUE)
            /\ UNCHANGED redisTokens
    /\ inflight' = MapDel(inflight, r)
    /\ UNCHANGED <<users, now, ticks, statuses, isConnected, redis, redisCodes,
                   memCodes, history>>

ExpiryNext ==
    \/ \E d \in Deltas : Tick(d)
    \/ RedisReady
    \/ RedisClosed
    \/ \E r \in Requests, userId \in UserIds, token \in AdapterTokens,
          commandThrows \in BOOLEAN :
          token.userId = userId /\ setRefreshTokenSadd(r, userId, token, commandThrows)
    \/ \E r \in Requests, commandThrows \in BOOLEAN :
          setRefreshTokenExpire(r, commandThrows)
    \/ \E userId \in UserIds, commandThrows \in BOOLEAN :
          opGetRefreshToken(userId, commandThrows)
    \/ \E userId \in UserIds, commandThrows \in BOOLEAN :
          opInvalidateAllRefreshTokens(userId, commandThrows)

ExpirySpec == Init /\ [][ExpiryNext]_vars

\* C38: once no setRefreshToken call is in flight, every refresh-credential
\* set held in the remote store carries a finite expiry, also when EXPIRE
\* failed after SADD had succeeded.
C38_RemoteCredentialsExpire ==
    inflight = EmptyMap
      => \A key \in DOMAIN redisTokens : redisTokens[key].expiresAt # Persistent

\* a call that ran both commands leaves the expiry one lifetime ahead
ExpireSetsLifetime ==
    [][ \A r \in DOMAIN inflight :
          (r \notin DOMAIN inflight' /\ resp'.served = "remote"
             /\ inflight[r].userId \in DOMAIN redisTokens)
            => redisTokens'[inflight[r].userId].expiresAt
                  = now + REFRESH_TOKEN_TTL ]_vars

\* a credential is returned from a set without expiry a lifetime after the
\* call that added it
PersistentCredentialServed ==
    /\ resp.op = "getRefreshToken"
    /\ resp.served = "remote"
    /\ resp.result # NoToken
    /\ now >= REFRESH_TOKEN_TTL
    /\ resp.result.iat = 0
    /\ redisTokens[resp.result.userId].expiresAt = Persistent

\* ------------------------------------------- the fallback's expiry timers
MaxTimers == 3

MaxTimerTicks == 4

Timers == 1..MaxTimers

\* lifetimes handed to InMemoryFallback.setEmailCode
TimerTtls == {VERIFICATION_CODE_EXPIRY, 2 * VERIFICATION_CODE_EXPIRY}

\* the clock advances by half a code lifetime; no timer runs by itself
TimerElapse ==
    /\ ticks < MaxTimerTicks
    /\ ticks' = ticks + 1
    /\ now' = now + VERIFICATION_CODE_EXPIRY \div 2
    /\ UNCHANGED <<users, isConnected, redis, statuses, stores, inflight, resp,
                   history>>

\* the callback of setEmailCode's timer, without its test
emailCodeTimeoutUnchecked(mc, email, t) == MapDel(mc, email)

\* the callback of setEmailCode's timer:
\*   const entry = this.emailCodes.get(email);
\*   if (entry && entry.timestamp <= Date.now()) this.emailCodes.delete(email)
emailCodeTimeout(mc, email, t) ==
    IF email \in DOMAIN mc /\ mc[email].expiresAt <= t THEN MapDel(mc, email)
    ELSE mc

\* InMemoryFallback.setEmailCode: the entry is overwritten and a timer is
\* scheduled ttl from now
fallbackSetEmailCode(id, email, code, ttl) ==
    /\ id \notin DOMAIN inflight
    /\ \A other \in Timers \ DOMAIN inflight : id <= other
    /\ memCodes' = memSetEmailCode(memCodes, email, code, ttl, now)
    /\ inflight' = MapSet(inflight, id, [pc |-> "setTimeout", email |-> email,
                                         fireAt |-> now + ttl])
    /\ resp' = [op |-> "memoryFallback.setEmailCode", email |-> email,
                code |-> code, result |-> TRUE]
    /\ UNCHANGED <<users, now, ticks, isConnected, redis, statuses, redisCodes,
                   redisTokens, memTokens, history>>

\* a timer set by setEmailCode runs its callback, no earlier than its delay
fallbackEmailCodeTimeout(id) ==
    /\ id \in DOMAIN inflight
    /\ inflight[id].pc = "setTimeout"
    /\ now >= inflight[id].fireAt
    /\ memCodes' = emailCodeTimeout(memCodes, inflight[id].email, now)
    /\ inflight' = MapDel(inflight, id)
    /\ resp' = [op |-> "setTimeout", email |-> inflight[id].email,
                fireAt |-> inflight[id].fireAt,
                result |-> memCodes' # memCodes]
    /\ UNCHANGED <<users, now, ticks, isConnected, redis, statuses, redisCodes,
                   redisTokens, memTokens, history>>

\* InMemoryFallback.getEmailCode: an expired entry is deleted and null returned
fallbackGetEmailCode(email) ==
    /\ memCodes' = IF email \in DOMAIN memCodes /\ memCodes[email].expiresAt <= now
                   THEN MapDel(memCodes, email) ELSE memCodes
    /\ resp' = [op |-> "memoryFallback.getEmailCode", email |-> email,
                result |-> memGetEmailCode(memCodes, email, now)]
    /\ UNCHANGED <<users, now, ticks, isConnected, redis, statuses, redisCodes,
                   redisTokens, memTokens, inflight, history>>

\* InMemoryFallback.deleteEmailCode
fallbackDeleteEmailCode(email) ==
    /\ memCodes' = MapDel(memCodes, email)
    /\ resp' = [op |-> "memoryFallback.deleteEmailCode", email |-> email,
                result |-> memDelResult(memCodes, email)]
    /\ UNCHANGED <<users, now, ticks, isConnected, redis, statuses, redisCodes,
                   redisTokens, memTokens, inflight, history>>

TimerNext ==
    \/ TimerElapse
    \/ \E id \in Timers, email \in LowerEmails, code \in generateVerificationCode,
          ttl \in TimerTtls : fallbackSetEmailCode(id, email, code, ttl)
    \/ \E id \in Timers : fallbackEmailCodeTimeout(id)
    \/ \E email \in LowerEmails : fallbackGetEmailCode(email)
    \/ \E email \in LowerEmails : fallbackDeleteEmailCode(email)

TimerSpec == Init /\ [][TimerNext]_vars

\* C39: when the timer of an earlier setEmailCode runs, it removes the entry
\* stored under its key only if that entry has itself expired; a code written
\* to the key by a later setEmailCode stays as it is until its own TTL has
\* elapsed.
C39_StaleTimerSpares ==
    /\ [][ \A id \in DOMAIN inflight :
             id \notin DOMAIN inflight'
               => LET email == inflight[id].email
                  IN  IF email \in DOMAIN memCodes /\ memCodes[email].expiresAt <= now
                      THEN memCodes' = MapDel(memCodes, email)
                      ELSE memCodes' = memCodes ]_vars
    /\ [][ \A email \in DOMAIN memCodes :
             (/\ memCodes[email].expiresAt > now'
              /\ resp'.op \notin {"memoryFallback.setEmailCode",
                                  "memoryFallback.deleteEmailCode"})
               => /\ email \in DOMAIN memCodes'
                  /\ memCodes'[email] = memCodes[email] ]_vars

\* the timer of an earlier write has just run and left alone a code that a
\* later write stored under the same key and that is still readable
C39_Witness ==
    /\ resp.op = "setTimeout"
    /\ ~resp.result
    /\ resp.fireAt = now
    /\ resp.email \in DOMAIN memCodes
    /\ memCodes[resp.email].expiresAt > now
    /\ memGetEmailCode(memCodes, resp.email, now) = memCodes[resp.email].code
    /\ \E id \in DOMAIN inflight :
          /\ inflight[id].email = resp.email
          /\ inflight[id].fireAt = memCodes[resp.email].expiresAt

====
